---- MODULE Spec2Model ----
(***************************************************************************)
(* State-machine model of the DAV persistent heap (src/common/dav/heap.c). *)
(*                                                                         *)
(* The persistent region is the heap header, the zone headers, the chunk   *)
(* headers and the run bitmaps.  The volatile state is struct heap_rt and  *)
(* the default zone set (default bucket, class buckets, recyclers).        *)
(* Sizes are scaled down: the layout constants keep the relations of       *)
(* heap_layout.h (ZONE_MIN_SIZE, ZONE_MAX_SIZE, HEAP_MIN_SIZE are derived  *)
(* from the header sizes, CHUNKSIZE and MAX_CHUNK) with small numbers.     *)
(*                                                                         *)
(* Granularity of the concurrent specification Spec: one step is the code  *)
(* a thread runs between two acquisitions of a bucket mutex.  Everything   *)
(* done while the default bucket is held is one step (no code path blocks  *)
(* while holding it); a class bucket is held across the steps of           *)
(* heap_ensure_run_bucket_filled.  Volatile allocations (recycler_new,     *)
(* container nodes) are taken to succeed.                                  *)
(***************************************************************************)
EXTENDS Integers, Sequences, FiniteSets, TLC

\* ---------------------------------------------------------------- bounds
NThreads == 2          \* threads of the concurrent specification
HeapSize == 13         \* heap_size of the booted heap (scaled bytes)
MaxPending == 3        \* cap of a recycler's pending-free counter
MaxRegionSize == 14    \* largest heap_size drawn for heap_init / heap_check
MaxClasses == 3        \* run classes of a drawn class collection
MaxUnit == 4           \* largest unit size of a drawn run class
MaxLockClasses == 2    \* run classes of the lock-order specification
MaxRecyclers == 4      \* recycler objects recycler_new can hand out
WideChunks == 4        \* chunks of the zone of the coalescing specification
MaxTrace == 6          \* calls of the sequential caller that are recorded
MaxRound == 3          \* blocks allocated in one round of the round trip

\* ------------------------------------------------- layout (heap_layout.h)
HEAP_HDR_SIZE == 1     \* sizeof(struct heap_header)
ZONE_HDR_SIZE == 1     \* sizeof(struct zone_header)
CHUNK_HDR_SIZE == 1    \* sizeof(struct chunk_header)
CHUNKSIZE == 2
MAX_CHUNK == 2
ZONE_META_SIZE == ZONE_HDR_SIZE + CHUNK_HDR_SIZE * MAX_CHUNK
ZONE_MIN_SIZE == ZONE_META_SIZE + CHUNKSIZE
ZONE_MAX_SIZE == ZONE_META_SIZE + CHUNKSIZE * MAX_CHUNK
HEAP_MIN_SIZE == HEAP_HDR_SIZE + ZONE_MIN_SIZE
ZONE_HEADER_MAGIC == 1

CHUNK_TYPE_UNKNOWN == 0
CHUNK_TYPE_FOOTER == 1
CHUNK_TYPE_FREE == 2
CHUNK_TYPE_USED == 3
CHUNK_TYPE_RUN == 4
CHUNK_TYPE_RUN_DATA == 5
MAX_CHUNK_TYPE == 6

CHUNK_FLAGS_ALL_VALID == {"COMPACT_HEADER", "HEADER_NONE"}

ENOMEM == 12
EINVAL == 22
ENOENT == 2

\* --------------------------------------------- allocation classes (4.2)
DEFAULT_ALLOC_CLASS_ID == 0
RUN_CLASS_ID == 1
RunClasses == {RUN_CLASS_ID}
RUN_UNIT_SIZE == 1     \* rdsc.unit_size of the run class
RUN_NALLOCS == 2       \* rdsc.nallocs of the run class
RUN_SIZE_IDX == 1      \* rdsc.size_idx of the run class

alloc_class_by_id(id) ==
    IF id = DEFAULT_ALLOC_CLASS_ID
    THEN [id |-> id, type |-> "CLASS_HUGE", header_type |-> "HEADER_COMPACT",
          unit_size |-> CHUNKSIZE, nallocs |-> 0, size_idx |-> 0, flags |-> {}]
    ELSE [id |-> id, type |-> "CLASS_RUN", header_type |-> "HEADER_NONE",
          unit_size |-> RUN_UNIT_SIZE, nallocs |-> RUN_NALLOCS,
          size_idx |-> RUN_SIZE_IDX, flags |-> {"HEADER_NONE"}]

\* alloc_class_by_run: the class of an existing run, 0 standing for NULL
alloc_class_by_run(block_size, flags, size_idx) ==
    IF /\ block_size = RUN_UNIT_SIZE
       /\ flags = alloc_class_by_id(RUN_CLASS_ID).flags
       /\ size_idx = RUN_SIZE_IDX
    THEN RUN_CLASS_ID ELSE 0

\* the class collection as alloc_class_by_alloc_size reads it: the run
\* classes with their unit sizes; the default class is always registered
DefaultClass ==
    [id |-> DEFAULT_ALLOC_CLASS_ID, type |-> "CLASS_HUGE",
     unit_size |-> CHUNKSIZE]
RunClass(id, unit_size) ==
    [id |-> id, type |-> "CLASS_RUN", unit_size |-> unit_size]
ModelClasses == {RunClass(RUN_CLASS_ID, RUN_UNIT_SIZE)}

\* alloc_class_by_alloc_size: the smallest-unit class whose unit >= size,
\* the default class when no run class fits
alloc_class_by_alloc_size(ac, size) ==
    LET fit == {c \in ac : c.unit_size >= size}
        Key(c) == c.unit_size * (MaxClasses + 1) + c.id
    IN IF fit = {} THEN DefaultClass
       ELSE CHOOSE c \in fit : \A o \in fit : Key(c) <= Key(o)

\* ------------------------------------------------------------ the state
VARIABLES
    heap_size,        \* size of the mapped region
    sizep,            \* *sizep: the persistent heap size field
    header,           \* layout->header: signature and checksum validity
    zhdr,             \* zone headers: [magic, size_idx] per zone
    hdr,              \* chunk headers: [type, flags, size_idx] per zone, chunk
    chunk_run,        \* run header and bitmap in a run's first chunk
    booted,           \* heap->rt != NULL
    nzones,           \* rt->nzones
    zones_exhausted,  \* rt->zones_exhausted
    default_bucket,   \* container of zset->default_bucket: free huge blocks
    buckets,          \* zset->buckets[id]: active run and free cell ranges
    bucket_owner,     \* holder of the mutex of zset->buckets[id], 0 if none
    recyclers,        \* zset->recyclers[id]
    heap_run_active,  \* transient statistics counter
    pc,               \* position of every thread
    req,              \* units requested by a thread inside a run refill
    live,             \* blocks handed out and not yet freed (history)
    last,             \* the last heap_init / heap_check / heap_boot call
                      \* and its return value (history)
    track_stats,      \* whether the behaviour records heap_run_active
    alloc_classes,    \* rt->alloc_classes
    bucket_lock,      \* holder of the mutex of every bucket_locked, 0 if
                      \* none (kept by the lock-order specification)
    held,             \* the bucket mutexes a thread holds, in the order
                      \* it acquired them (history)
    recycler_ptr,     \* zset->recyclers[id] as a pointer, 0 for NULL
    recycler_objs,    \* the objects recycler_new returned: who created
                      \* them, how they fared, how often they were deleted
    unseen,           \* per class, the run cells freed since the last call
                      \* of recycler_recalc on its recycler (history)
    trace             \* the calls of the sequential caller and what they
                      \* returned (history)

vars == <<heap_size, sizep, header, zhdr, hdr, chunk_run, booted, nzones,
          zones_exhausted, default_bucket, buckets, bucket_owner, recyclers,
          heap_run_active, pc, req, live, last, track_stats, alloc_classes,
          bucket_lock, held, recycler_ptr, recycler_objs, unseen, trace>>

\* ------------------------------------------------ heap geometry (heap.c)
RECURSIVE heap_max_zone_loop(_, _)
heap_max_zone_loop(size, max_zone) ==
    IF size >= ZONE_MIN_SIZE
    THEN heap_max_zone_loop(
             size - (IF size <= ZONE_MAX_SIZE THEN size ELSE ZONE_MAX_SIZE),
             max_zone + 1)
    ELSE max_zone

heap_max_zone(size) == heap_max_zone_loop(size - HEAP_HDR_SIZE, 0)

zone_calc_size_idx(zone_id, max_zone, hsize) ==
    IF zone_id < max_zone - 1
    THEN MAX_CHUNK
    ELSE (hsize - zone_id * ZONE_MAX_SIZE
            - (ZONE_HDR_SIZE + CHUNK_HDR_SIZE * MAX_CHUNK + HEAP_HDR_SIZE))
         \div CHUNKSIZE

Threads == 1..NThreads
MaxZones == heap_max_zone(MaxRegionSize)
ZoneIds == 0..(MaxZones - 1)
ChunkIds == 0..(MAX_CHUNK - 1)
Cells == 0..(RUN_NALLOCS - 1)

\* the cells <<zone, chunk, cell>> a block covers: whole chunks for a huge
\* block, the cells block_off .. block_off + size_idx - 1 for a run block
Extent(b) ==
    IF b.type = "HUGE"
    THEN {<<b.zone_id, c, o>> :
             c \in b.chunk_id..(b.chunk_id + b.size_idx - 1), o \in Cells}
    ELSE {<<b.zone_id, b.chunk_id, o>> :
             o \in b.block_off..(b.block_off + b.size_idx - 1)}

\* ------------------------------------------- bucket mutexes (bucket.c)
\* the bucket_locked of a zone set: default_bucket and buckets[id]
DefaultBucketLock ==
    [bucket |-> "default_bucket", id |-> DEFAULT_ALLOC_CLASS_ID]
ClassBucketLock(id) == [bucket |-> "buckets", id |-> id]
BucketLocks ==
    {DefaultBucketLock} \cup {ClassBucketLock(id) : id \in 0..MaxLockClasses}
NoBucket == [bucket |-> "NULL", id |-> 0]

\* zoneset_bucket_acquire without the test for the default class
zoneset_bucket_acquire_by_id(class_id) == ClassBucketLock(class_id)

\* zoneset_bucket_acquire: the bucket_locked that class_id stands for
zoneset_bucket_acquire(class_id) ==
    IF class_id = DEFAULT_ALLOC_CLASS_ID THEN DefaultBucketLock
    ELSE ClassBucketLock(class_id)


\* ----------------------------------------------- memory blocks (4.1)
\* A memory block: (zone_id, chunk_id, size_idx, block_off) and its flavour.
Block(zone_id, chunk_id, size_idx, block_off, type, header_type) ==
    [zone_id |-> zone_id, chunk_id |-> chunk_id, size_idx |-> size_idx,
     block_off |-> block_off, type |-> type, header_type |-> header_type]

\* a free huge block as the default bucket's container keys it
HugeKey(zone_id, chunk_id, size_idx) ==
    [zone_id |-> zone_id, chunk_id |-> chunk_id, size_idx |-> size_idx]

NoRun == [zone_id |-> 0 - 1, chunk_id |-> 0 - 1]

\* memblock_header_type: the header type the chunk flags stand for
memblock_header_type(flags) ==
    IF "COMPACT_HEADER" \in flags THEN "HEADER_COMPACT"
    ELSE IF "HEADER_NONE" \in flags THEN "HEADER_NONE"
    ELSE "HEADER_LEGACY"

header_type_to_flag(t) ==
    IF t = "HEADER_COMPACT" THEN {"COMPACT_HEADER"}
    ELSE IF t = "HEADER_NONE" THEN {"HEADER_NONE"}
    ELSE {}

\* the footer of a huge extent: the header of its last chunk
huge_write_footer(S, zone_id, chunk_id, size_idx) ==
    IF size_idx = 1 THEN S
    ELSE [S EXCEPT !.hdr[zone_id][chunk_id + size_idx - 1] =
             [type |-> CHUNK_TYPE_FOOTER, flags |-> {}, size_idx |-> size_idx]]

\* memblock_huge_init: writes a FREE header (flags 0) and its footer
memblock_huge_init(S, chunk_id, zone_id, size_idx) ==
    huge_write_footer(
        [S EXCEPT !.hdr[zone_id][chunk_id] =
            [type |-> CHUNK_TYPE_FREE, flags |-> {}, size_idx |-> size_idx]],
        zone_id, chunk_id, size_idx)

\* huge prep_hdr: header type from the new state, flags kept, then the footer
huge_prep_hdr(S, zone_id, chunk_id, size_idx, type) ==
    huge_write_footer(
        [S EXCEPT !.hdr[zone_id][chunk_id] =
            [type |-> type, flags |-> S.hdr[zone_id][chunk_id].flags,
             size_idx |-> size_idx]],
        zone_id, chunk_id, size_idx)

\* huge ensure_header_type: sets the flag of the class's header type
huge_ensure_header_type(S, zone_id, chunk_id, t) ==
    [S EXCEPT !.hdr[zone_id][chunk_id].flags = @ \cup header_type_to_flag(t)]

\* memblock_run_init: run header, empty bitmap, RUN_DATA headers, RUN header
memblock_run_init(S, chunk_id, zone_id, c) ==
    [S EXCEPT
        !.chunk_run[zone_id][chunk_id] =
            [block_size |-> c.unit_size, bitmap |-> {}],
        !.hdr[zone_id] =
            [i \in ChunkIds |->
                IF i = chunk_id
                THEN [type |-> CHUNK_TYPE_RUN, flags |-> c.flags,
                      size_idx |-> c.size_idx]
                ELSE IF i > chunk_id /\ i < chunk_id + c.size_idx
                THEN [type |-> CHUNK_TYPE_RUN_DATA, flags |-> {},
                      size_idx |-> i - chunk_id]
                ELSE @[i]]]

\* the maximal ranges of clear bits of a run bitmap (iterate_free)
FreeRanges(bitmap) ==
    {r \in [block_off : Cells, size_idx : 1..RUN_NALLOCS] :
        /\ r.block_off + r.size_idx <= RUN_NALLOCS
        /\ \A k \in r.block_off..(r.block_off + r.size_idx - 1) : k \notin bitmap
        /\ (r.block_off - 1) \in bitmap \/ r.block_off = 0
        /\ (r.block_off + r.size_idx) \in bitmap
              \/ r.block_off + r.size_idx = RUN_NALLOCS}

SetMax(X) == IF X = {} THEN 0 ELSE CHOOSE x \in X : \A y \in X : y <= x

\* recycler_element_new: free space and largest free block of a run
recycler_element_new(S, zone_id, chunk_id) ==
    LET bm == S.chunk_run[zone_id][chunk_id].bitmap IN
    [zone_id |-> zone_id, chunk_id |-> chunk_id,
     free_space |-> RUN_NALLOCS - Cardinality(bm),
     max_free_block |-> SetMax({r.size_idx : r \in FreeRanges(bm)})]

\* -------------------------------------------------- containers (4.3)
\* ravl container: smallest size_idx that fits, then zone, then chunk id
container_get_rm_bestfit_huge(cont, units) ==
    LET fit == {b \in cont : b.size_idx >= units}
        Key(b) == (b.size_idx * MaxZones + b.zone_id) * MAX_CHUNK + b.chunk_id
    IN IF fit = {} THEN {}
       ELSE {CHOOSE b \in fit : \A o \in fit : Key(b) <= Key(o)}

\* seglists container of a run bucket: smallest size that fits, first offset
container_get_rm_bestfit_run(cont, units) ==
    LET fit == {b \in cont : b.size_idx >= units}
        Key(b) == b.size_idx * RUN_NALLOCS + b.block_off
    IN IF fit = {} THEN {}
       ELSE {CHOOSE b \in fit : \A o \in fit : Key(b) <= Key(o)}

\* ------------------------------------------------------ recycler (4.6)
NoRecycler == [exists |-> FALSE, pending |-> 0, runs |-> {}]

\* heap_get_recycler: the slot's recycler, constructed on first use
heap_get_recycler(S, id) ==
    IF S.recyclers[id].exists THEN S
    ELSE [S EXCEPT !.recyclers[id] = [NoRecycler EXCEPT !.exists = TRUE]]

recycler_put(S, id, e) ==
    [S EXCEPT !.recyclers[id].runs = @ \cup {e}]

\* recycler_get: a run able to serve `units` cells, most free first
recycler_get(S, id, units) ==
    LET fit == {e \in S.recyclers[id].runs : e.max_free_block >= units}
        Key(e) == ((RUN_NALLOCS - e.free_space) * MaxZones + e.zone_id)
                      * MAX_CHUNK + e.chunk_id
    IN IF fit = {} THEN {}
       ELSE {CHOOSE e \in fit : \A o \in fit : Key(e) <= Key(o)}

\* recycler_recalc: when forced or when the pending frees exceed nallocs,
\* every element is recomputed from its bitmap; the fully free runs leave
\* the ledger and are returned, the others stay with their new counts.
\* Every call is recorded in the history S.unseen.
recycler_recalc(S, id, force) ==
    LET r == S.recyclers[id]
        fresh == {recycler_element_new(S, e.zone_id, e.chunk_id) : e \in r.runs}
        empty == {e \in fresh : e.free_space = RUN_NALLOCS}
    IN IF force \/ r.pending > RUN_NALLOCS
       THEN [S |-> [S EXCEPT !.recyclers[id] =
                       [r EXCEPT !.pending = 0, !.runs = fresh \ empty],
                             !.unseen[id] = {}],
             runs |-> {[zone_id |-> e.zone_id, chunk_id |-> e.chunk_id] :
                          e \in empty}]
       ELSE [S |-> [S EXCEPT !.unseen[id] = {}], runs |-> {}]

recycler_inc_unaccounted(S, id, size_idx) ==
    [S EXCEPT !.recyclers[id].pending = @ + size_idx]

\* ------------------------------------------------------- bucket (4.4)
\* bucket_attach_run: the run becomes the active run, its free ranges
\* (read from the bitmap) fill the container
bucket_attach_run(S, id, zone_id, chunk_id) ==
    [S EXCEPT !.buckets[id] =
        [active |-> [zone_id |-> zone_id, chunk_id |-> chunk_id],
         cont |-> FreeRanges(S.chunk_run[zone_id][chunk_id].bitmap)]]

\* bucket_detach_run: empties the container and hands the active run out
bucket_detach_run(S, id) ==
    [S EXCEPT !.buckets[id] = [active |-> NoRun, cont |-> {}]]

\* ------------------------------------------------------------- heap.c
\* S is the heap as a record: the persistent region and struct heap_rt.
\* The result of a call is bound as x \in {call}, so that it is computed
\* once; The(X) is the element of the one-element set X.
The(X) == CHOOSE x \in X : TRUE

\* heap_get_best_class returning the first class that fits
heap_get_best_class_first_fit(ac, size) ==
    LET fit == {c \in ac : c.unit_size >= size} IN
    IF fit = {} THEN DefaultClass
    ELSE CHOOSE c \in fit : \A o \in fit : c.id <= o.id

\* heap_get_best_class: ac is heap->rt->alloc_classes
heap_get_best_class(ac, size) == alloc_class_by_alloc_size(ac, size)

heap_zone_init(S, zone_id, first_chunk_id) ==
    LET size_idx == zone_calc_size_idx(zone_id, S.nzones, S.sizep) IN
    [memblock_huge_init(S, first_chunk_id, zone_id, size_idx - first_chunk_id)
        EXCEPT !.zhdr[zone_id] =
                   [magic |-> ZONE_HEADER_MAGIC, size_idx |-> size_idx]]

\* heap_get_adjacent_free_block that never finds the previous neighbour
heap_get_adjacent_free_block_next_only(S, in, prev) ==
    LET z == in.zone_id
        h == S.hdr[z][in.chunk_id]
        none == [ret |-> ENOENT, out |-> HugeKey(z, 0, 0)]
        cid == in.chunk_id + h.size_idx
    IN IF prev \/ cid = S.zhdr[z].size_idx THEN none
       ELSE IF S.hdr[z][cid].type # CHUNK_TYPE_FREE THEN none
       ELSE [ret |-> 0, out |-> HugeKey(z, cid, S.hdr[z][cid].size_idx)]

\* heap_get_adjacent_free_block: ret 0 and the neighbour, or ENOENT
heap_get_adjacent_free_block(S, in, prev) ==
    LET z == in.zone_id
        h == S.hdr[z][in.chunk_id]
        none == [ret |-> ENOENT, out |-> HugeKey(z, 0, 0)]
        found(cid) ==
            IF S.hdr[z][cid].type # CHUNK_TYPE_FREE THEN none
            ELSE [ret |-> 0, out |-> HugeKey(z, cid, S.hdr[z][cid].size_idx)]
    IN IF prev
       THEN IF in.chunk_id = 0 THEN none
            ELSE found(in.chunk_id - S.hdr[z][in.chunk_id - 1].size_idx)
       ELSE IF in.chunk_id + h.size_idx = S.zhdr[z].size_idx THEN none
            ELSE found(in.chunk_id + h.size_idx)

\* heap_coalesce_huge with heap_coalesce: the neighbours that are FREE and
\* in the bucket leave it (bucket_remove_block) and are merged with m
heap_coalesce_huge(S, m) ==
    LET merge(p, n) ==
            LET hasp == p.ret = 0 /\ p.out \in S.default_bucket
                hasn == n.ret = 0 /\ n.out \in S.default_bucket
            IN [S |-> [S EXCEPT !.default_bucket =
                          (@ \ (IF hasp THEN {p.out} ELSE {}))
                             \ (IF hasn THEN {n.out} ELSE {})],
                m |-> HugeKey(m.zone_id,
                              IF hasp THEN p.out.chunk_id ELSE m.chunk_id,
                              (IF hasp THEN p.out.size_idx ELSE 0)
                                  + m.size_idx
                                  + (IF hasn THEN n.out.size_idx ELSE 0))]
    IN The({merge(p, n) :
               p \in {heap_get_adjacent_free_block(S, m, TRUE)},
               n \in {heap_get_adjacent_free_block(S, m, FALSE)}})

heap_free_chunk_reuse(S, m) ==
    LET insert(c) ==
            [S |-> [(IF c.m.size_idx # m.size_idx
                     THEN huge_prep_hdr(c.S, c.m.zone_id, c.m.chunk_id,
                                        c.m.size_idx, CHUNK_TYPE_FREE)
                     ELSE c.S)
                       EXCEPT !.default_bucket = @ \cup {c.m}],
             m |-> c.m]
    IN The({insert(c) : c \in {heap_coalesce_huge(S, m)}})

\* heap_run_into_free_chunk with the header of the resulting block written
\* as CHUNK_TYPE_USED
heap_run_into_free_chunk_used(S, m) ==
    LET size_idx == S.hdr[m.zone_id][m.chunk_id].size_idx
        used(f) == [S |-> huge_prep_hdr(f.S, f.m.zone_id, f.m.chunk_id,
                                        f.m.size_idx, CHUNK_TYPE_USED),
                    m |-> f.m]
    IN The({used(heap_free_chunk_reuse(
                     T, HugeKey(m.zone_id, m.chunk_id, size_idx))) :
               T \in {memblock_huge_init(
                          [S EXCEPT !.heap_run_active = @ - size_idx * CHUNKSIZE],
                          m.chunk_id, m.zone_id, size_idx)}})

heap_run_into_free_chunk(S, m) ==
    LET size_idx == S.hdr[m.zone_id][m.chunk_id].size_idx IN
    The({heap_free_chunk_reuse(T, HugeKey(m.zone_id, m.chunk_id, size_idx)) :
            T \in {memblock_huge_init(
                       [S EXCEPT !.heap_run_active = @ - size_idx * CHUNKSIZE],
                       m.chunk_id, m.zone_id, size_idx)}})

\* heap_reclaim_run with line 406 comparing free_space with 0 instead of
\* rdsc.nallocs: a run with any free cell is reported as free
heap_reclaim_run_any_free(S, m, startup) ==
    LET reclaim(c, e) ==
            IF c = 0
            THEN [S |-> S, ret |-> IF e.free_space = RUN_NALLOCS THEN 1 ELSE 0]
            ELSE IF e.free_space > 0
            THEN [S |-> S, ret |-> 1]
            ELSE [S |-> recycler_put(heap_get_recycler(S, c), c, e),
                  ret |-> 0]
    IN The({reclaim(c, e) :
               c \in {alloc_class_by_run(
                          S.chunk_run[m.zone_id][m.chunk_id].block_size,
                          S.hdr[m.zone_id][m.chunk_id].flags, m.size_idx)},
               e \in {recycler_element_new(S, m.zone_id, m.chunk_id)}})

\* heap_reclaim_run: ret 1 when the run is completely free, otherwise the
\* run goes to the recycler of its class
heap_reclaim_run(S, m, startup) ==
    LET reclaim(c, e) ==
            IF c = 0
            THEN [S |-> S, ret |-> IF e.free_space = RUN_NALLOCS THEN 1 ELSE 0]
            ELSE IF e.free_space = alloc_class_by_id(c).nallocs
            THEN [S |-> S, ret |-> 1]
            ELSE [S |-> recycler_put(
                            heap_get_recycler(
                                IF startup
                                THEN [S EXCEPT !.heap_run_active =
                                                   @ + m.size_idx * CHUNKSIZE]
                                ELSE S, c),
                            c, e),
                  ret |-> 0]
    IN The({reclaim(c, e) :
               c \in {alloc_class_by_run(
                          S.chunk_run[m.zone_id][m.chunk_id].block_size,
                          S.hdr[m.zone_id][m.chunk_id].flags, m.size_idx)},
               e \in {recycler_element_new(S, m.zone_id, m.chunk_id)}})

\* the loop of heap_reclaim_zone_garbage from chunk i on
RECURSIVE heap_reclaim_zone_garbage_loop(_, _, _)
heap_reclaim_zone_garbage_loop(S, zone_id, i) ==
    IF ~(i < S.zhdr[zone_id].size_idx) THEN S
    ELSE LET h == S.hdr[zone_id][i]
             m == HugeKey(zone_id, i, h.size_idx)
             after(T, n) ==
                 heap_reclaim_zone_garbage_loop(T, zone_id,
                                                n.chunk_id + n.size_idx)
             run(r) ==
                 IF r.ret # 0
                 THEN The({after(f.S, f.m) :
                              f \in {heap_run_into_free_chunk(r.S, m)}})
                 ELSE after(r.S, m)
         IN CASE h.type = CHUNK_TYPE_RUN ->
                   The({run(r) : r \in {heap_reclaim_run(S, m, TRUE)}})
              [] h.type = CHUNK_TYPE_FREE ->
                   The({after(f.S, f.m) : f \in {heap_free_chunk_reuse(S, m)}})
              [] h.type = CHUNK_TYPE_USED -> after(S, m)
              [] OTHER -> IF h.size_idx = 0 THEN S ELSE after(S, m)

heap_reclaim_zone_garbage(S, zone_id) ==
    heap_reclaim_zone_garbage_loop(S, zone_id, 0)

\* heap_populate_bucket counting the zone before the check for exhaustion
heap_populate_bucket_count_first(S) ==
    IF S.zones_exhausted >= S.nzones
    THEN [S |-> [S EXCEPT !.zones_exhausted = @ + 1], ret |-> ENOMEM]
    ELSE LET zone_id == S.zones_exhausted
             S1 == [S EXCEPT !.zones_exhausted = @ + 1]
         IN [S |-> The({heap_reclaim_zone_garbage(T, zone_id) :
                           T \in {IF S.zhdr[zone_id].magic # ZONE_HEADER_MAGIC
                                  THEN heap_zone_init(S1, zone_id, 0)
                                  ELSE S1}}),
             ret |-> 0]

\* heap_populate_bucket without line 487: the zone is counted and
\* initialised but not scanned
heap_populate_bucket_no_scan(S) ==
    IF S.zones_exhausted = S.nzones THEN [S |-> S, ret |-> ENOMEM]
    ELSE LET zone_id == S.zones_exhausted
             S1 == [S EXCEPT !.zones_exhausted = @ + 1]
         IN [S |-> IF S.zhdr[zone_id].magic # ZONE_HEADER_MAGIC
                   THEN heap_zone_init(S1, zone_id, 0)
                   ELSE S1,
             ret |-> 0]

heap_populate_bucket(S) ==
    IF S.zones_exhausted = S.nzones THEN [S |-> S, ret |-> ENOMEM]
    ELSE LET zone_id == S.zones_exhausted
             S1 == [S EXCEPT !.zones_exhausted = @ + 1]
         IN [S |-> The({heap_reclaim_zone_garbage(T, zone_id) :
                           T \in {IF S.zhdr[zone_id].magic # ZONE_HEADER_MAGIC
                                  THEN heap_zone_init(S1, zone_id, 0)
                                  ELSE S1}}),
             ret |-> 0]

\* the empty runs a recalc returned, each turned into a free chunk
RECURSIVE heap_recycle_unused_each(_, _)
heap_recycle_unused_each(S, runs) ==
    IF runs = {} THEN S
    ELSE LET Key(r) == r.zone_id * MAX_CHUNK + r.chunk_id
             step(nm) ==
                 The({heap_recycle_unused_each(f.S, runs \ {nm}) :
                         f \in {heap_run_into_free_chunk(S, nm)}})
         IN The({step(nm) :
                    nm \in {CHOOSE r \in runs :
                                \A o \in runs : Key(r) <= Key(o)}})

heap_recycle_unused(S, id, force) ==
    LET each(r) ==
            IF r.runs = {} THEN [S |-> r.S, ret |-> ENOMEM]
            ELSE [S |-> heap_recycle_unused_each(r.S, r.runs), ret |-> 0]
    IN The({each(r) : r \in {recycler_recalc(S, id, force)}})

RECURSIVE heap_reclaim_garbage_loop(_, _, _)
heap_reclaim_garbage_loop(S, ids, ret) ==
    IF ids = {} THEN [S |-> S, ret |-> ret]
    ELSE LET i == CHOOSE x \in ids : \A y \in ids : x <= y IN
         IF ~S.recyclers[i].exists
         THEN heap_reclaim_garbage_loop(S, ids \ {i}, ret)
         ELSE The({heap_reclaim_garbage_loop(u.S, ids \ {i},
                                             IF u.ret = 0 THEN 0 ELSE ret) :
                      u \in {heap_recycle_unused(S, i, TRUE)}})

heap_reclaim_garbage(S) == heap_reclaim_garbage_loop(S, RunClasses, ENOMEM)

\* heap_ensure_huge_bucket_filled without the return of line 567: a zone is
\* populated although heap_reclaim_garbage produced free chunks
heap_ensure_huge_bucket_filled_both(S) ==
    LET first(g) ==
            The({IF p.ret = 0 \/ g.ret = 0 THEN [S |-> p.S, ret |-> 0]
                 ELSE [S |-> p.S, ret |-> ENOMEM] :
                    p \in {heap_populate_bucket(g.S)}})
    IN The({first(g) : g \in {heap_reclaim_garbage(S)}})

heap_ensure_huge_bucket_filled(S) ==
    LET second(p) ==
            IF p.ret = 0 THEN p
            ELSE The({IF q.ret = 0 THEN q ELSE [S |-> q.S, ret |-> ENOMEM] :
                         q \in {heap_populate_bucket(p.S)}})
        first(g) ==
            IF g.ret = 0 THEN g
            ELSE The({second(p) : p \in {heap_populate_bucket(g.S)}})
    IN The({first(g) : g \in {heap_reclaim_garbage(S)}})

NoBlock == Block(0 - 1, 0 - 1, 0, 0, "NONE", "NONE")

\* bucket_alloc_block: the best fit leaves the bucket's container
bucket_alloc_block(S, id, units) ==
    LET huge(a) ==
            IF a = {} THEN [S |-> S, ret |-> ENOMEM, m |-> NoBlock]
            ELSE LET b == CHOOSE x \in a : TRUE IN
                 [S |-> [S EXCEPT !.default_bucket = @ \ a], ret |-> 0,
                  m |-> Block(b.zone_id, b.chunk_id, b.size_idx, 0, "HUGE",
                              memblock_header_type(
                                  S.hdr[b.zone_id][b.chunk_id].flags))]
        run(a) ==
            LET act == S.buckets[id].active IN
            IF act = NoRun \/ a = {}
            THEN [S |-> S, ret |-> ENOMEM, m |-> NoBlock]
            ELSE LET b == CHOOSE x \in a : TRUE IN
                 [S |-> [S EXCEPT !.buckets[id].cont = @ \ a], ret |-> 0,
                  m |-> Block(act.zone_id, act.chunk_id, b.size_idx,
                              b.block_off, "RUN",
                              memblock_header_type(
                                  S.hdr[act.zone_id][act.chunk_id].flags))]
    IN IF id = DEFAULT_ALLOC_CLASS_ID
       THEN The({huge(a) :
                    a \in {container_get_rm_bestfit_huge(S.default_bucket,
                                                         units)}})
       ELSE The({run(a) :
                    a \in {container_get_rm_bestfit_run(S.buckets[id].cont,
                                                        units)}})

\* heap_split_block without the header of the remainder
heap_split_block_no_header(S, id, m, units) ==
    IF alloc_class_by_id(id).type = "CLASS_RUN"
    THEN [S |-> [S EXCEPT !.buckets[id].cont = @ \cup
                    {[block_off |-> m.block_off + units,
                      size_idx |-> m.size_idx - units]}],
          m |-> [m EXCEPT !.size_idx = units]]
    ELSE [S |-> [memblock_huge_init(S, m.chunk_id, m.zone_id, units)
                    EXCEPT !.default_bucket = @ \cup
                        {HugeKey(m.zone_id, m.chunk_id + units,
                                 m.size_idx - units)}],
          m |-> Block(m.zone_id, m.chunk_id, units, 0, "HUGE",
                      memblock_header_type({}))]

\* heap_split_block without the insertion of the remainder
heap_split_block_no_insert(S, id, m, units) ==
    IF alloc_class_by_id(id).type = "CLASS_RUN"
    THEN [S |-> S, m |-> [m EXCEPT !.size_idx = units]]
    ELSE [S |-> The({memblock_huge_init(T, m.chunk_id, m.zone_id, units) :
                        T \in {memblock_huge_init(S, m.chunk_id + units,
                                                  m.zone_id,
                                                  m.size_idx - units)}}),
          m |-> Block(m.zone_id, m.chunk_id, units, 0, "HUGE",
                      memblock_header_type({}))]

heap_split_block(S, id, m, units) ==
    IF alloc_class_by_id(id).type = "CLASS_RUN"
    THEN [S |-> [S EXCEPT !.buckets[id].cont = @ \cup
                    {[block_off |-> m.block_off + units,
                      size_idx |-> m.size_idx - units]}],
          m |-> [m EXCEPT !.size_idx = units]]
    ELSE LET new_chunk_id == m.chunk_id + units
             new_size_idx == m.size_idx - units
             second(T) == memblock_huge_init(T, m.chunk_id, m.zone_id, units)
         IN [S |-> [The({second(T) :
                            T \in {memblock_huge_init(S, new_chunk_id,
                                                      m.zone_id, new_size_idx)}})
                       EXCEPT !.default_bucket = @ \cup
                           {HugeKey(m.zone_id, new_chunk_id, new_size_idx)}],
             m |-> Block(m.zone_id, m.chunk_id, units, 0, "HUGE",
                         memblock_header_type({}))]

\* the end of heap_get_bestfit_block without m->header_type
heap_get_bestfit_block_tail_no_type(S, id, m, units) ==
    LET t == alloc_class_by_id(id).header_type
        tail(sp) ==
            [S |-> IF sp.m.type = "HUGE"
                   THEN huge_ensure_header_type(sp.S, sp.m.zone_id,
                                                sp.m.chunk_id, t)
                   ELSE sp.S,
             ret |-> 0, m |-> sp.m, taken |-> m.size_idx]
    IN The({tail(sp) :
               sp \in {IF units # m.size_idx
                       THEN heap_split_block(S, id, m, units)
                       ELSE [S |-> S, m |-> m]}})

\* heap_get_bestfit_block after its loop: split, ensure_header_type and
\* the header type of the class
heap_get_bestfit_block_tail(S, id, m, units) ==
    LET t == alloc_class_by_id(id).header_type
        tail(sp) ==
            [S |-> IF sp.m.type = "HUGE"
                   THEN huge_ensure_header_type(sp.S, sp.m.zone_id,
                                                sp.m.chunk_id, t)
                   ELSE sp.S,
             ret |-> 0, m |-> [sp.m EXCEPT !.header_type = t],
             taken |-> m.size_idx]
    IN The({tail(sp) :
               sp \in {IF units # m.size_idx
                       THEN heap_split_block(S, id, m, units)
                       ELSE [S |-> S, m |-> m]}})

\* heap_get_bestfit_block on the default bucket (CLASS_HUGE)
RECURSIVE heap_get_bestfit_block(_, _)
heap_get_bestfit_block(S, units) ==
    LET refilled(f) ==
            IF f.ret # 0
            THEN [S |-> f.S, ret |-> ENOMEM, m |-> NoBlock, taken |-> 0]
            ELSE heap_get_bestfit_block(f.S, units)
        got(a) ==
            IF a.ret = 0
            THEN heap_get_bestfit_block_tail(a.S, DEFAULT_ALLOC_CLASS_ID,
                                             a.m, units)
            ELSE The({refilled(f) : f \in {heap_ensure_huge_bucket_filled(S)}})
    IN The({got(a) :
               a \in {bucket_alloc_block(S, DEFAULT_ALLOC_CLASS_ID, units)}})

\* heap_discard_run without lines 605-611: a run that heap_reclaim_run
\* reports as free is not made a free chunk
heap_discard_run_kept(S, m) ==
    The({r.S : r \in {heap_reclaim_run(S, m, FALSE)}})

\* heap_discard_run, lines 598-612: the run goes to the recycler, or, when
\* heap_reclaim_run reports it free, becomes a free chunk
heap_discard_run(S, m) ==
    LET discard(r) ==
            IF r.ret # 0
            THEN The({f.S : f \in {heap_run_into_free_chunk(r.S, m)}})
            ELSE r.S
    IN The({discard(r) : r \in {heap_reclaim_run(S, m, FALSE)}})

\* heap_detach_and_try_discard_run: with no reservation outstanding the
\* detached run is always discarded
heap_detach_and_try_discard_run(S, id) ==
    LET act == S.buckets[id].active IN
    IF act = NoRun THEN S
    ELSE The({heap_discard_run(T, k) :
                 T \in {bucket_detach_run(S, id)},
                 k \in {HugeKey(act.zone_id, act.chunk_id,
                                S.hdr[act.zone_id][act.chunk_id].size_idx)}})

heap_reuse_from_recycler(S, id, units, force) ==
    LET take(T, x) ==
            LET e == CHOOSE y \in x : TRUE IN
            [S |-> bucket_attach_run(
                       [T EXCEPT !.recyclers[id].runs = @ \ x],
                       id, e.zone_id, e.chunk_id),
             ret |-> 0]
        again(u) ==
            LET last_get(g2) ==
                    IF g2 # {} THEN take(u.S, g2)
                    ELSE [S |-> u.S, ret |-> ENOMEM]
            IN The({last_get(g2) : g2 \in {recycler_get(u.S, id, units)}})
        first_get(S0) ==
            LET reuse(g) ==
                    IF ~force /\ g # {} THEN take(S0, g)
                    ELSE The({again(u) :
                                 u \in {heap_recycle_unused(S0, id, force)}})
            IN The({reuse(g) : g \in {recycler_get(S0, id, units)}})
    IN The({first_get(S0) : S0 \in {heap_get_recycler(S, id)}})

heap_run_create(S, id, m) ==
    LET c == alloc_class_by_id(id)
        attach(T) == bucket_attach_run(T, id, m.zone_id, m.chunk_id)
        created(T) == [T EXCEPT !.heap_run_active = @ + c.size_idx * CHUNKSIZE]
    IN The({created(U) :
               U \in {The({attach(T) :
                              T \in {memblock_run_init(S, m.chunk_id,
                                                       m.zone_id, c)}})}})

\* heap_ensure_run_bucket_filled, lines 700-704: detach, first reuse
heap_ensure_run_bucket_filled_1(S, id, units) ==
    The({heap_reuse_from_recycler(T, id, units, FALSE) :
            T \in {heap_detach_and_try_discard_run(S, id)}})

\* lines 706-713 without the second reuse: the next zone is populated and
\* the call goes on to the fresh run
heap_ensure_run_bucket_filled_2_no_reuse(S, id, units) ==
    The({[S |-> p.S, ret |-> ENOMEM] : p \in {heap_populate_bucket(S)}})

\* lines 706-713: populate the next zone, second reuse
heap_ensure_run_bucket_filled_2(S, id, units) ==
    The({heap_reuse_from_recycler(p.S, id, units, FALSE) :
            p \in {heap_populate_bucket(S)}})

\* lines 715-738 without the last reuse of lines 733-734
heap_ensure_run_bucket_filled_3_no_reuse(S, id, units) ==
    LET fresh(b) ==
            IF b.ret = 0
            THEN [S |-> heap_run_create(b.S, id, b.m), ret |-> 0]
            ELSE [S |-> b.S, ret |-> ENOMEM]
    IN The({fresh(b) :
               b \in {heap_get_bestfit_block(
                          S, alloc_class_by_id(id).size_idx)}})

\* lines 715-738: a fresh run from the default bucket, or the last reuse
heap_ensure_run_bucket_filled_3(S, id, units) ==
    LET fresh(b) ==
            IF b.ret = 0
            THEN [S |-> heap_run_create(b.S, id, b.m), ret |-> 0]
            ELSE heap_reuse_from_recycler(b.S, id, units, FALSE)
    IN The({fresh(b) :
               b \in {heap_get_bestfit_block(
                          S, alloc_class_by_id(id).size_idx)}})

heap_memblock_on_free(S, m) ==
    IF m.type # "RUN" THEN S
    ELSE LET h == S.hdr[m.zone_id][m.chunk_id]
             run == S.chunk_run[m.zone_id][m.chunk_id]
             account(c) ==
                 IF c = 0 THEN S
                 ELSE The({[recycler_inc_unaccounted(T, c, m.size_idx)
                               EXCEPT !.unseen[c] = @ \cup Extent(m)] :
                              T \in {heap_get_recycler(S, c)}})
         IN The({account(c) :
                    c \in {alloc_class_by_run(run.block_size, h.flags,
                                              h.size_idx)}})

\* ZID_TO_ZONE: the offset of zone zone_id from the start of the layout
ZID_TO_ZONE(zone_id) == HEAP_HDR_SIZE + ZONE_MAX_SIZE * zone_id

\* heap_end: &last_zone->chunks[last_zone->header.size_idx], as an offset
\* from the start of the layout
heap_end(S) ==
    LET last_zone == S.nzones - 1 IN
    ZID_TO_ZONE(last_zone) + ZONE_META_SIZE
        + S.zhdr[last_zone].size_idx * CHUNKSIZE

\* ------------------------------------------- heap_init, heap_boot
ZeroHdr == [type |-> CHUNK_TYPE_UNKNOWN, flags |-> {}, size_idx |-> 0]
ZeroZoneHdr == [magic |-> 0, size_idx |-> 0]
EmptyBucket == [active |-> NoRun, cont |-> {}]

\* heap_write_header: a header with the signature and a matching checksum
heap_write_header == [signature |-> TRUE, checksum |-> TRUE]

\* heap_init without the check of heap_size against HEAP_MIN_SIZE
heap_init_unchecked(S, hsize) ==
    [S |-> [S EXCEPT !.header = heap_write_header, !.sizep = hsize],
     ret |-> 0]

heap_init(S, hsize) ==
    IF hsize < HEAP_MIN_SIZE THEN [S |-> S, ret |-> EINVAL]
    ELSE LET zones == heap_max_zone(hsize) IN
         [S |-> [S EXCEPT
                    !.header = heap_write_header,
                    !.zhdr = [z \in ZoneIds |->
                                 IF z < zones THEN ZeroZoneHdr ELSE @[z]],
                    !.hdr = [z \in ZoneIds |->
                                IF z < zones
                                THEN [@[z] EXCEPT ![0] = ZeroHdr]
                                ELSE @[z]],
                    !.sizep = hsize],
          ret |-> 0]

\* heap_zone_update_if_needed without the magic test of line 961: a zone
\* that was never initialised is initialised at boot
RECURSIVE heap_zone_update_eager_loop(_, _)
heap_zone_update_eager_loop(S, i) ==
    IF ~(i < S.nzones) THEN S
    ELSE IF zone_calc_size_idx(i, S.nzones, S.sizep) = S.zhdr[i].size_idx
            \/ zone_calc_size_idx(i, S.nzones, S.sizep) \notin 1..MAX_CHUNK
    THEN heap_zone_update_eager_loop(S, i + 1)
    ELSE The({heap_zone_update_eager_loop(T, i + 1) :
                 T \in {heap_zone_init(
                            S, i, IF S.zhdr[i].magic = ZONE_HEADER_MAGIC
                                  THEN S.zhdr[i].size_idx ELSE 0)}})

heap_zone_update_eager(S) == heap_zone_update_eager_loop(S, 0)

\* heap_zone_update_if_needed with line 969 passing 0 as first_chunk_id: a
\* grown zone is initialised from its first chunk
RECURSIVE heap_zone_update_whole_loop(_, _)
heap_zone_update_whole_loop(S, i) ==
    IF ~(i < S.nzones) THEN S
    ELSE IF S.zhdr[i].magic # ZONE_HEADER_MAGIC
    THEN heap_zone_update_whole_loop(S, i + 1)
    ELSE IF zone_calc_size_idx(i, S.nzones, S.sizep) = S.zhdr[i].size_idx
    THEN heap_zone_update_whole_loop(S, i + 1)
    ELSE The({heap_zone_update_whole_loop(T, i + 1) :
                 T \in {heap_zone_init(S, i, 0)}})

heap_zone_update_whole(S) == heap_zone_update_whole_loop(S, 0)

RECURSIVE heap_zone_update_if_needed_loop(_, _)
heap_zone_update_if_needed_loop(S, i) ==
    IF ~(i < S.nzones) THEN S
    ELSE IF S.zhdr[i].magic # ZONE_HEADER_MAGIC
    THEN heap_zone_update_if_needed_loop(S, i + 1)
    ELSE IF zone_calc_size_idx(i, S.nzones, S.sizep) = S.zhdr[i].size_idx
    THEN heap_zone_update_if_needed_loop(S, i + 1)
    ELSE The({heap_zone_update_if_needed_loop(T, i + 1) :
                 T \in {heap_zone_init(S, i, S.zhdr[i].size_idx)}})

heap_zone_update_if_needed(S) == heap_zone_update_if_needed_loop(S, 0)

\* heap_default_zoneset_init: empty buckets, no recycler
heap_default_zoneset_init(S) ==
    [S EXCEPT !.default_bucket = {},
              !.buckets = [id \in RunClasses |-> EmptyBucket],
              !.recyclers = [id \in RunClasses |-> NoRecycler]]

heap_boot(S, hsize) ==
    LET S1 == IF S.sizep = 0 THEN [S EXCEPT !.sizep = hsize] ELSE S IN
    IF hsize < S1.sizep THEN [S |-> S1, ret |-> EINVAL]
    ELSE [S |-> The({heap_zone_update_if_needed(T) :
                        T \in {heap_default_zoneset_init(
                                   [S1 EXCEPT
                                       !.nzones = heap_max_zone(hsize),
                                       !.zones_exhausted = 0,
                                       !.heap_run_active = 0])}}),
          ret |-> 0]

\* ------------------------------------------------------- heap_check
LOOPS_FOREVER == 0 - 99   \* stands for a call that never returns

heap_verify_header(h) ==
    IF ~h.checksum THEN 0 - 1
    ELSE IF ~h.signature THEN 0 - 1
    ELSE 0

heap_verify_zone_header(zh) ==
    IF zh.magic # ZONE_HEADER_MAGIC THEN 0
    ELSE IF zh.size_idx = 0 THEN 0 - 1
    ELSE 0

heap_verify_chunk_header(h) ==
    IF h.type = CHUNK_TYPE_UNKNOWN THEN 0 - 1
    ELSE IF h.type >= MAX_CHUNK_TYPE THEN 0 - 1
    ELSE IF h.flags \ CHUNK_FLAGS_ALL_VALID # {} THEN 0 - 1
    ELSE 0

\* the loop of heap_verify_zone; a header of size_idx 0 that passes
\* heap_verify_chunk_header leaves i unchanged for ever
RECURSIVE heap_verify_zone_loop(_, _, _)
heap_verify_zone_loop(S, z, i) ==
    IF i < S.zhdr[z].size_idx
    THEN IF heap_verify_chunk_header(S.hdr[z][i]) # 0 THEN 0 - 1
         ELSE IF S.hdr[z][i].size_idx = 0 THEN LOOPS_FOREVER
         ELSE heap_verify_zone_loop(S, z, i + S.hdr[z][i].size_idx)
    ELSE IF i # S.zhdr[z].size_idx THEN 0 - 1
    ELSE 0

heap_verify_zone(S, z) ==
    IF S.zhdr[z].magic = 0 THEN 0
    ELSE IF S.zhdr[z].magic # ZONE_HEADER_MAGIC THEN 0 - 1
    ELSE IF heap_verify_zone_header(S.zhdr[z]) # 0 THEN 0 - 1
    ELSE heap_verify_zone_loop(S, z, 0)

RECURSIVE heap_check_loop(_, _, _)
heap_check_loop(S, hsize, i) ==
    IF ~(i < heap_max_zone(hsize)) THEN 0
    ELSE LET next(v) == IF v # 0 THEN v ELSE heap_check_loop(S, hsize, i + 1)
         IN The({next(v) : v \in {heap_verify_zone(S, i)}})

heap_check(S, hsize) ==
    IF hsize < HEAP_MIN_SIZE THEN 0 - 1
    ELSE IF heap_verify_header(S.header) # 0 THEN 0 - 1
    ELSE heap_check_loop(S, hsize, 0)

\* ------------------------------------ the callers of the heap (palloc)
\* an allocation is published: the chunk header becomes USED, the cells
\* of a run are set in its bitmap
palloc_publish(S, m) ==
    IF m.type = "HUGE"
    THEN huge_prep_hdr(S, m.zone_id, m.chunk_id, m.size_idx, CHUNK_TYPE_USED)
    ELSE [S EXCEPT !.chunk_run[m.zone_id][m.chunk_id].bitmap =
             @ \cup (m.block_off..(m.block_off + m.size_idx - 1))]

\* a free: the header goes back to FREE and the chunk to the default
\* bucket; the cells of a run are cleared and heap_memblock_on_free runs
palloc_free(S, m) ==
    IF m.type = "HUGE"
    THEN The({f.S :
                 f \in {The({heap_free_chunk_reuse(
                                 T, HugeKey(m.zone_id, m.chunk_id,
                                            m.size_idx)) :
                                T \in {huge_prep_hdr(S, m.zone_id, m.chunk_id,
                                                     m.size_idx,
                                                     CHUNK_TYPE_FREE)}})}})
    ELSE The({heap_memblock_on_free(T, m) :
                 T \in {[S EXCEPT !.chunk_run[m.zone_id][m.chunk_id].bitmap =
                            @ \ (m.block_off..(m.block_off + m.size_idx - 1))]}})

\* ------------------------------------------------ the state machine
Heap ==
    [sizep |-> sizep, header |-> header, zhdr |-> zhdr, hdr |-> hdr,
     chunk_run |-> chunk_run, nzones |-> nzones,
     zones_exhausted |-> zones_exhausted, default_bucket |-> default_bucket,
     buckets |-> buckets, recyclers |-> recyclers,
     heap_run_active |-> heap_run_active, unseen |-> unseen]

\* the heap S becomes the next state; heap_run_active is write-only in
\* heap.c, so a behaviour that does not record it differs in nothing else
InstallHeap(S) ==
    /\ sizep' = S.sizep
    /\ header' = S.header
    /\ zhdr' = S.zhdr
    /\ hdr' = S.hdr
    /\ chunk_run' = S.chunk_run
    /\ nzones' = S.nzones
    /\ zones_exhausted' = S.zones_exhausted
    /\ default_bucket' = S.default_bucket
    /\ buckets' = S.buckets
    /\ recyclers' = S.recyclers
    /\ heap_run_active' =
           IF track_stats THEN S.heap_run_active ELSE heap_run_active
    /\ unseen' = IF track_stats THEN S.unseen ELSE unseen
    /\ UNCHANGED <<track_stats, alloc_classes, bucket_lock, held,
                   recycler_ptr, recycler_objs>>

Install(S) == InstallHeap(S) /\ UNCHANGED trace

Install0(S) ==
    /\ sizep = S.sizep
    /\ header = S.header
    /\ zhdr = S.zhdr
    /\ hdr = S.hdr
    /\ chunk_run = S.chunk_run
    /\ nzones = S.nzones
    /\ zones_exhausted = S.zones_exhausted
    /\ default_bucket = S.default_bucket
    /\ buckets = S.buckets
    /\ recyclers = S.recyclers
    /\ heap_run_active = S.heap_run_active
    /\ unseen = S.unseen

ZeroRegion ==
    [sizep |-> 0, header |-> [signature |-> FALSE, checksum |-> FALSE],
     zhdr |-> [z \in ZoneIds |-> ZeroZoneHdr],
     hdr |-> [z \in ZoneIds |-> [c \in ChunkIds |-> ZeroHdr]],
     chunk_run |-> [z \in ZoneIds |->
                       [c \in ChunkIds |-> [block_size |-> 0, bitmap |-> {}]]],
     nzones |-> 0, zones_exhausted |-> 0, default_bucket |-> {},
     buckets |-> [id \in RunClasses |-> EmptyBucket],
     recyclers |-> [id \in RunClasses |-> NoRecycler],
     heap_run_active |-> 0, unseen |-> [id \in RunClasses |-> {}]]

NoAlias == \A a, b \in live : a # b => Extent(a) \cap Extent(b) = {}

\* callers use the heap while it is booted; the behaviours are followed
\* up to the first state in which two live blocks overlap
Usable == booted /\ NoAlias

\* idle threads are interchangeable: the lowest one issues the next call
Caller(t) ==
    /\ Usable
    /\ pc[t] = "idle"
    /\ \A u \in Threads : pc[u] = "idle" => t <= u

\* Init: heap_init and heap_boot on a zeroed region of HeapSize bytes
InitHeap ==
    /\ heap_size = HeapSize
    /\ \E i \in {heap_init(ZeroRegion, HeapSize)} :
           \E b \in {heap_boot(i.S, HeapSize)} : Install0(b.S)
    /\ booted = TRUE
    /\ bucket_owner = [id \in RunClasses |-> 0]
    /\ pc = [t \in Threads |-> "idle"]
    /\ req = [t \in Threads |-> 0]
    /\ live = {}
    /\ last = [op |-> "boot", ret |-> 0]
    /\ bucket_lock = [b \in BucketLocks |-> 0]
    /\ held = [t \in Threads |-> <<>>]
    /\ recycler_ptr = [id \in RunClasses |-> 0]
    /\ recycler_objs = <<>>
    /\ trace = <<>>

Init == InitHeap /\ alloc_classes = ModelClasses /\ track_stats = FALSE

\* a huge allocation: heap_get_bestfit_block with the default bucket held,
\* then the publication of the block
AllocHuge(t, units) ==
    /\ Caller(t)
    /\ \E H \in {Heap} :
       \E r \in {heap_get_bestfit_block(H, units)} :
       \E P \in {IF r.ret = 0 THEN palloc_publish(r.S, r.m) ELSE r.S} :
           /\ Install(P)
           /\ live' = IF r.ret = 0 THEN live \cup {r.m} ELSE live
    /\ UNCHANGED <<heap_size, booted, bucket_owner, pc, req, last>>

\* the loop of heap_get_bestfit_block on a class bucket held by t, entered
\* at bucket_alloc_block: a hit completes the call, a miss starts a refill
RunTry(t, id, units, S) ==
    \E a \in {bucket_alloc_block(S, id, units)} :
    IF a.ret = 0
    THEN \E r \in {heap_get_bestfit_block_tail(a.S, id, a.m, units)} :
         \E P \in {palloc_publish(r.S, r.m)} :
         /\ Install(P)
         /\ live' = live \cup {r.m}
         /\ bucket_owner' = [bucket_owner EXCEPT ![id] = 0]
         /\ pc' = [pc EXCEPT ![t] = "idle"]
         /\ req' = [req EXCEPT ![t] = 0]
    ELSE /\ Install(S)
         /\ bucket_owner' = [bucket_owner EXCEPT ![id] = t]
         /\ pc' = [pc EXCEPT ![t] = "refill1"]
         /\ req' = [req EXCEPT ![t] = units]
         /\ UNCHANGED live

\* after a part of heap_ensure_run_bucket_filled: back to the loop when
\* it filled the bucket, otherwise on to the next part
RunRefilled(t, id, r, next) ==
    IF r.ret = 0 THEN RunTry(t, id, req[t], r.S)
    ELSE /\ Install(r.S)
         /\ pc' = [pc EXCEPT ![t] = next]
         /\ UNCHANGED <<bucket_owner, req, live>>

AllocRun(t, id, units) ==
    /\ Caller(t) /\ bucket_owner[id] = 0
    /\ \E H \in {Heap} : RunTry(t, id, units, H)
    /\ UNCHANGED <<heap_size, booted, last>>

Refill1(t, id) ==
    /\ Usable /\ pc[t] = "refill1" /\ bucket_owner[id] = t
    /\ \E H \in {Heap} :
       \E r \in {heap_ensure_run_bucket_filled_1(H, id, req[t])} :
           RunRefilled(t, id, r, "refill2")
    /\ UNCHANGED <<heap_size, booted, last>>

Refill2(t, id) ==
    /\ Usable /\ pc[t] = "refill2" /\ bucket_owner[id] = t
    /\ \E H \in {Heap} :
       \E r \in {heap_ensure_run_bucket_filled_2(H, id, req[t])} :
           RunRefilled(t, id, r, "refill3")
    /\ UNCHANGED <<heap_size, booted, last>>

Refill3(t, id) ==
    /\ Usable /\ pc[t] = "refill3" /\ bucket_owner[id] = t
    /\ \E H \in {Heap} :
       \E r \in {heap_ensure_run_bucket_filled_3(H, id, req[t])} :
       IF r.ret = 0 THEN RunTry(t, id, req[t], r.S)
       ELSE /\ Install(r.S)
            /\ bucket_owner' = [bucket_owner EXCEPT ![id] = 0]
            /\ pc' = [pc EXCEPT ![t] = "idle"]
            /\ req' = [req EXCEPT ![t] = 0]
            /\ UNCHANGED live
    /\ UNCHANGED <<heap_size, booted, last>>

\* a live block is freed
Free(t, m) ==
    /\ Caller(t) /\ m \in live
    /\ m.type = "RUN" =>
           \A id \in RunClasses : recyclers[id].pending < MaxPending
    /\ \E H \in {Heap} : \E F \in {palloc_free(H, m)} : Install(F)
    /\ live' = live \ {m}
    /\ UNCHANGED <<heap_size, booted, bucket_owner, pc, req, last>>

\* heap_cleanup and heap_boot of the same region: the volatile state is
\* rebuilt, the region and the live blocks stay
Restart ==
    /\ Usable /\ \A t \in Threads : pc[t] = "idle"
    /\ \E H \in {Heap} : \E r \in {heap_boot(H, heap_size)} :
       /\ Install(r.S)
       /\ last' = [op |-> "boot", ret |-> r.ret]
    /\ UNCHANGED <<heap_size, booted, bucket_owner, pc, req, live>>

MaxHugeUnits == MAX_CHUNK

\* the calls of one session: allocations and frees on the booted heap
NextSession ==
    \/ \E t \in Threads, units \in 1..MaxHugeUnits : AllocHuge(t, units)
    \/ \E t \in Threads, id \in RunClasses, units \in 1..RUN_NALLOCS :
           AllocRun(t, id, units)
    \/ \E t \in Threads, id \in RunClasses : Refill1(t, id)
    \/ \E t \in Threads, id \in RunClasses : Refill2(t, id)
    \/ \E t \in Threads, id \in RunClasses : Refill3(t, id)
    \/ \E t \in Threads, m \in live : Free(t, m)

Next == NextSession \/ Restart

Spec == Init /\ [][Next]_vars

\* one session only: the heap is never closed and booted again
SpecSession == Init /\ [][NextSession]_vars

\* --------------------------- creating and checking a region (SpecOpen)
\* a region of any content is mapped and not yet booted: heap_init and
\* heap_check are called on it, heap_boot follows a successful heap_init
BadFlags == {"0x8000"}      \* a flag bit outside CHUNK_FLAGS_ALL_VALID
BadMagic == ZONE_HEADER_MAGIC + 1   \* neither 0 nor the zone magic

RegionSizes == {HEAP_MIN_SIZE - 1, HEAP_MIN_SIZE, HeapSize, MaxRegionSize}
Headers ==
    {[signature |-> TRUE, checksum |-> TRUE],
     [signature |-> FALSE, checksum |-> TRUE],
     [signature |-> TRUE, checksum |-> FALSE]}
ZoneHdrs == [magic : {0, ZONE_HEADER_MAGIC, BadMagic}, size_idx : 0..MAX_CHUNK]
ChunkHdrs ==
    [type : {CHUNK_TYPE_UNKNOWN, CHUNK_TYPE_FREE, CHUNK_TYPE_USED,
             MAX_CHUNK_TYPE},
     flags : {{}, BadFlags}, size_idx : 0..MAX_CHUNK]
\* the headers drawn behind the first one of a zone, and for the last zone
FewChunkHdrs ==
    {ZeroHdr,
     [type |-> CHUNK_TYPE_FREE, flags |-> {}, size_idx |-> 1],
     [type |-> CHUNK_TYPE_USED, flags |-> {"COMPACT_HEADER"}, size_idx |-> 1],
     [type |-> CHUNK_TYPE_FOOTER, flags |-> {}, size_idx |-> MAX_CHUNK]}
FewZoneHdrs ==
    {ZeroZoneHdr, [magic |-> ZONE_HEADER_MAGIC, size_idx |-> 1]}

InitOpen ==
    /\ heap_size \in RegionSizes
    /\ sizep \in {0, HeapSize}
    /\ header \in Headers
    /\ \E z0 \in ZoneHdrs, zn \in FewZoneHdrs :
           zhdr = [z \in ZoneIds |-> IF z = 0 THEN z0 ELSE zn]
    /\ \E h0 \in ChunkHdrs, hn \in FewChunkHdrs, l0 \in FewChunkHdrs :
           hdr = [z \in ZoneIds |-> [c \in ChunkIds |->
                     IF z = 0 THEN (IF c = 0 THEN h0 ELSE hn)
                     ELSE (IF c = 0 THEN l0 ELSE ZeroHdr)]]
    /\ chunk_run = ZeroRegion.chunk_run
    /\ booted = FALSE
    /\ nzones = 0
    /\ zones_exhausted = 0
    /\ default_bucket = {}
    /\ buckets = [id \in RunClasses |-> EmptyBucket]
    /\ bucket_owner = [id \in RunClasses |-> 0]
    /\ recyclers = [id \in RunClasses |-> NoRecycler]
    /\ heap_run_active = 0
    /\ unseen = [id \in RunClasses |-> {}]
    /\ pc = [t \in Threads |-> "idle"]
    /\ req = [t \in Threads |-> 0]
    /\ live = {}
    /\ last = [op |-> "none", ret |-> 0]
    /\ track_stats = TRUE
    /\ alloc_classes = ModelClasses
    /\ bucket_lock = [b \in BucketLocks |-> 0]
    /\ held = [t \in Threads |-> <<>>]
    /\ recycler_ptr = [id \in RunClasses |-> 0]
    /\ recycler_objs = <<>>
    /\ trace = <<>>

HeapInit ==
    /\ ~booted
    /\ \E H \in {Heap} : \E r \in {heap_init(H, heap_size)} :
           /\ Install(r.S)
           /\ last' = [op |-> "init", ret |-> r.ret]
    /\ UNCHANGED <<heap_size, booted, bucket_owner, pc, req, live>>

HeapCheck ==
    /\ ~booted
    /\ \E H \in {Heap} : \E r \in {heap_check(H, heap_size)} :
           last' = [op |-> "check", ret |-> r]
    /\ UNCHANGED <<heap_size, sizep, header, zhdr, hdr, chunk_run, booted,
                   nzones, zones_exhausted, default_bucket, buckets,
                   bucket_owner, recyclers, heap_run_active, pc, req, live,
                   track_stats, alloc_classes, bucket_lock, held,
                   recycler_ptr, recycler_objs, unseen, trace>>

HeapBoot ==
    /\ ~booted /\ last = [op |-> "init", ret |-> 0]
    /\ \E H \in {Heap} : \E r \in {heap_boot(H, heap_size)} :
           /\ Install(r.S)
           /\ booted' = (r.ret = 0)
           /\ last' = [op |-> "boot", ret |-> r.ret]
    /\ UNCHANGED <<heap_size, bucket_owner, pc, req, live>>

NextOpen == HeapInit \/ HeapCheck \/ HeapBoot

SpecOpen == InitOpen /\ [][NextOpen]_vars

\* ------------------------------- choosing a class by size (SpecClass)
\* the heap is booted with a class collection of up to MaxClasses run
\* classes, ids and unit sizes in any order; a slot of unit size 0 is empty
ClassIds == 1..MaxClasses
ClassCollections ==
    {{RunClass(id, u[id]) : id \in {i \in ClassIds : u[i] # 0}} :
        u \in [ClassIds -> 0..MaxUnit]}

InitClass ==
    InitHeap /\ alloc_classes \in ClassCollections /\ track_stats = FALSE

GetBestClass(size) ==
    /\ booted
    /\ last' = [op |-> "best_class",
                ret |-> heap_get_best_class(alloc_classes, size)]
    /\ req' = [req EXCEPT ![1] = size]
    /\ UNCHANGED <<heap_size, sizep, header, zhdr, hdr, chunk_run, booted,
                   nzones, zones_exhausted, default_bucket, buckets,
                   bucket_owner, recyclers, heap_run_active, pc, live,
                   track_stats, alloc_classes, bucket_lock, held,
                   recycler_ptr, recycler_objs, unseen, trace>>

NextClass == \E size \in 1..(MaxUnit + 1) : GetBestClass(size)

SpecClass == InitClass /\ [][NextClass]_vars

\* ------------------------------------ the bucket mutexes (SpecLocks)
\* The steps of SpecLocks are the acquisitions and releases of bucket
\* mutexes and the code between them.  The outcome of every test on the
\* heap's contents (bucket_alloc_block, recycler_get, the runs returned by
\* recycler_recalc, heap_reclaim_run) is drawn from BOOLEAN, so that every
\* sequence of lock operations of the code is a behaviour.  pc[t] is the
\* position of thread t; req[t] is the number (1..3) of the call of
\* heap_reuse_from_recycler it is in, 0 outside of one.
HeapVars ==
    <<heap_size, sizep, header, zhdr, hdr, chunk_run, booted, nzones,
      zones_exhausted, default_bucket, buckets, bucket_owner, recyclers,
      heap_run_active, live, last, track_stats, alloc_classes,
      recycler_ptr, recycler_objs, unseen, trace>>

\* bucket_acquire: blocks until the mutex of b is free
bucket_acquire(t, b) ==
    /\ bucket_lock[b] = 0
    /\ bucket_lock' = [bucket_lock EXCEPT ![b] = t]
    /\ held' = [held EXCEPT ![t] = Append(@, b)]

bucket_release(t, b) ==
    /\ bucket_lock' = [bucket_lock EXCEPT ![b] = 0]
    /\ held' = [held EXCEPT ![t] = SelectSeq(@, LAMBDA x : x # b)]

\* zoneset_bucket_release that leaves the mutex locked
zoneset_bucket_release_kept(t, b) == UNCHANGED <<bucket_lock, held>>

\* zoneset_bucket_release, lines 139-143
zoneset_bucket_release(t, b) == bucket_release(t, b)

Goto(t, at, stage) ==
    /\ pc' = [pc EXCEPT ![t] = at]
    /\ req' = [req EXCEPT ![t] = stage]

\* the bucket the innermost heap_get_bestfit_block of t works on
CurrentBucket(t) == held[t][Len(held[t])]

\* heap_recycle_unused acquiring the default bucket whatever defb is
heap_recycle_unused_nb_always(defb) == TRUE

\* heap_recycle_unused, line 520: the default bucket is acquired when the
\* caller passed none
heap_recycle_unused_nb(defb) == defb = NoBucket

\* where heap_ensure_run_bucket_filled goes on after a call of
\* heap_reuse_from_recycler that found no run
AfterReuse(stage) ==
    CASE stage = 1 -> "populate"
      [] stage = 2 -> "create"
      [] OTHER -> "release"

\* the caller of the heap (palloc): zoneset_bucket_acquire for the class of
\* the request, or the default bucket for a huge allocation or free
LkAcquire(t, class_id) ==
    /\ booted /\ pc[t] = "idle"
    /\ bucket_acquire(t, zoneset_bucket_acquire(class_id))
    /\ Goto(t, "bestfit", 0)
    /\ UNCHANGED HeapVars

\* heap_get_bestfit_block, the loop on bucket_alloc_block: a hit ends the
\* call; a miss on the default bucket runs heap_ensure_huge_bucket_filled
\* (heap_reclaim_garbage hands the bucket to heap_recycle_unused), a miss on
\* a run bucket enters heap_ensure_run_bucket_filled
LkBestfit(t) ==
    /\ pc[t] = "bestfit"
    /\ \E hit \in BOOLEAN, garbage \in BOOLEAN, enomem \in BOOLEAN :
          IF hit
          THEN Goto(t, IF Len(held[t]) = 1 THEN "release" ELSE "created", 0)
          ELSE IF alloc_class_by_id(CurrentBucket(t).id).type = "CLASS_HUGE"
          THEN IF garbage THEN Goto(t, "recycle", 0)
               ELSE IF enomem
               THEN Goto(t, IF Len(held[t]) = 1 THEN "release"
                            ELSE "not_created", 0)
               ELSE Goto(t, "bestfit", 0)
          ELSE Goto(t, "detach", 0)
    /\ UNCHANGED <<bucket_lock, held>>
    /\ UNCHANGED HeapVars

\* heap_detach_and_try_discard_run: heap_discard_run for an empty run; a
\* failed bucket_detach_run ends heap_ensure_run_bucket_filled with ENOMEM
\* (line 700)
LkDetach(t) ==
    /\ pc[t] = "detach"
    /\ \E empty \in BOOLEAN, reclaimed \in BOOLEAN, failed \in BOOLEAN :
          IF failed THEN Goto(t, "release", 0)
          ELSE IF empty /\ reclaimed THEN Goto(t, "discard", 0)
          ELSE Goto(t, "reuse", 1)
    /\ UNCHANGED <<bucket_lock, held>>
    /\ UNCHANGED HeapVars

\* heap_discard_run called with no bucket held (a cancelled reservation)
LkExternalDiscard(t) ==
    /\ booted /\ pc[t] = "idle"
    /\ Goto(t, "discard", 0)
    /\ UNCHANGED <<bucket_lock, held>>
    /\ UNCHANGED HeapVars

\* heap_discard_run, line 606
LkDiscard(t) ==
    /\ pc[t] = "discard"
    /\ bucket_acquire(t, zoneset_bucket_acquire(DEFAULT_ALLOC_CLASS_ID))
    /\ Goto(t, "discarded", 0)
    /\ UNCHANGED HeapVars

\* heap_discard_run, lines 608-610
LkDiscarded(t) ==
    /\ pc[t] = "discarded"
    /\ zoneset_bucket_release(t, DefaultBucketLock)
    /\ IF Len(held[t]) = 1 THEN Goto(t, "idle", 0) ELSE Goto(t, "reuse", 1)
    /\ UNCHANGED HeapVars

\* heap_reuse_from_recycler up to heap_recycle_unused's test of the runs
LkReuse(t) ==
    /\ pc[t] = "reuse"
    /\ \E got \in BOOLEAN, runs \in BOOLEAN, again \in BOOLEAN :
          IF got THEN Goto(t, "bestfit", 0)
          ELSE IF runs THEN Goto(t, "recycle", req[t])
          ELSE IF again THEN Goto(t, "bestfit", 0)
          ELSE Goto(t, AfterReuse(req[t]), 0)
    /\ UNCHANGED <<bucket_lock, held>>
    /\ UNCHANGED HeapVars

\* heap_recycle_unused, line 520: defb is the bucket heap_reclaim_garbage
\* passed, or NULL when called from heap_reuse_from_recycler
LkRecycle(t) ==
    /\ pc[t] = "recycle"
    /\ \E defb \in {IF req[t] = 0 THEN CurrentBucket(t) ELSE NoBucket} :
          IF heap_recycle_unused_nb(defb)
          THEN bucket_acquire(t, zoneset_bucket_acquire(DEFAULT_ALLOC_CLASS_ID))
          ELSE UNCHANGED <<bucket_lock, held>>
    /\ Goto(t, "recycled", req[t])
    /\ UNCHANGED HeapVars

\* heap_recycle_unused, lines 525-530, and the second recycler_get of
\* heap_reuse_from_recycler
LkRecycled(t) ==
    /\ pc[t] = "recycled"
    /\ \E defb \in {IF req[t] = 0 THEN CurrentBucket(t) ELSE NoBucket} :
          IF heap_recycle_unused_nb(defb)
          THEN zoneset_bucket_release(t, DefaultBucketLock)
          ELSE UNCHANGED <<bucket_lock, held>>
    /\ \E again \in BOOLEAN :
          IF req[t] = 0 \/ again THEN Goto(t, "bestfit", 0)
          ELSE Goto(t, AfterReuse(req[t]), 0)
    /\ UNCHANGED HeapVars

\* heap_ensure_run_bucket_filled, line 707
LkPopulate(t) ==
    /\ pc[t] = "populate"
    /\ bucket_acquire(t, zoneset_bucket_acquire(DEFAULT_ALLOC_CLASS_ID))
    /\ Goto(t, "populated", 0)
    /\ UNCHANGED HeapVars

\* lines 709-712: heap_populate_bucket, release, second reuse
LkPopulated(t) ==
    /\ pc[t] = "populated"
    /\ zoneset_bucket_release(t, DefaultBucketLock)
    /\ Goto(t, "reuse", 2)
    /\ UNCHANGED HeapVars

\* line 719, then heap_get_bestfit_block on the default bucket
LkCreate(t) ==
    /\ pc[t] = "create"
    /\ bucket_acquire(t, zoneset_bucket_acquire(DEFAULT_ALLOC_CLASS_ID))
    /\ Goto(t, "bestfit", 0)
    /\ UNCHANGED HeapVars

\* lines 722-731: heap_run_create, release, out (or release and ENOMEM,
\* lines 724-726); or line 733 and the last reuse
LkCreated(t) ==
    /\ pc[t] \in {"created", "not_created"}
    /\ zoneset_bucket_release(t, DefaultBucketLock)
    /\ \E failed \in BOOLEAN :
          IF pc[t] = "created"
          THEN Goto(t, IF failed THEN "release" ELSE "bestfit", 0)
          ELSE Goto(t, "reuse", 3)
    /\ UNCHANGED HeapVars

\* the caller releases the bucket it acquired
LkRelease(t) ==
    /\ pc[t] = "release"
    /\ bucket_release(t, held[t][1])
    /\ Goto(t, "idle", 0)
    /\ UNCHANGED HeapVars

NextLocks ==
    \/ \E t \in Threads, class_id \in 0..MaxLockClasses : LkAcquire(t, class_id)
    \/ \E t \in Threads : LkBestfit(t)
    \/ \E t \in Threads : LkDetach(t)
    \/ \E t \in Threads : LkExternalDiscard(t)
    \/ \E t \in Threads : LkDiscard(t)
    \/ \E t \in Threads : LkDiscarded(t)
    \/ \E t \in Threads : LkReuse(t)
    \/ \E t \in Threads : LkRecycle(t)
    \/ \E t \in Threads : LkRecycled(t)
    \/ \E t \in Threads : LkPopulate(t)
    \/ \E t \in Threads : LkPopulated(t)
    \/ \E t \in Threads : LkCreate(t)
    \/ \E t \in Threads : LkCreated(t)
    \/ \E t \in Threads : LkRelease(t)

SpecLocks == Init /\ [][NextLocks]_vars

\* ---------------------- the construction of a recycler (SpecRecycler)
\* One step per atomic operation of heap_get_recycler.  req[t] is the
\* local r of thread t and, once t is idle again, the pointer its last
\* call returned.
RecyclerVars ==
    <<heap_size, sizep, header, zhdr, hdr, chunk_run, booted, nzones,
      zones_exhausted, default_bucket, buckets, bucket_owner, recyclers,
      heap_run_active, live, track_stats, alloc_classes, bucket_lock, held,
      unseen, trace>>

\* heap_get_recycler storing r without comparing
heap_get_recycler_store(cur, r) == [val |-> r, ok |-> TRUE]

\* heap_get_recycler, line 85: util_bool_compare_and_swap64(slot, NULL, r)
heap_get_recycler_cas(cur, r) ==
    IF cur = 0 THEN [val |-> r, ok |-> TRUE] ELSE [val |-> cur, ok |-> FALSE]

\* a thread calls heap_get_recycler(heap, zset, id, nallocs)
RcCall(t) ==
    /\ booted /\ pc[t] = "idle"
    /\ Goto(t, "load", 0)
    /\ UNCHANGED <<recycler_ptr, recycler_objs, last>>
    /\ UNCHANGED RecyclerVars

\* lines 80-82: the acquire load, and the return of a recycler found
RcLoad(t, id) ==
    /\ pc[t] = "load"
    /\ IF recycler_ptr[id] # 0 THEN Goto(t, "idle", recycler_ptr[id])
       ELSE Goto(t, "new", 0)
    /\ UNCHANGED <<recycler_ptr, recycler_objs, last>>
    /\ UNCHANGED RecyclerVars

\* line 84: recycler_new, which returns NULL when out of memory
RcNew(t) ==
    /\ pc[t] = "new"
    /\ \E ok \in BOOLEAN :
          IF ok /\ Len(recycler_objs) < MaxRecyclers
          THEN /\ recycler_objs' =
                     Append(recycler_objs,
                            [by |-> t, installed |-> FALSE, lost |-> FALSE,
                             deletes |-> 0])
               /\ Goto(t, "cas", Len(recycler_objs) + 1)
          ELSE /\ Goto(t, "idle", 0)
               /\ UNCHANGED recycler_objs
    /\ UNCHANGED <<recycler_ptr, last>>
    /\ UNCHANGED RecyclerVars

\* line 85: the compare-and-swap; the winner returns r
RcCas(t, id) ==
    /\ pc[t] = "cas"
    /\ \E c \in {heap_get_recycler_cas(recycler_ptr[id], req[t])} :
          /\ recycler_ptr' = [recycler_ptr EXCEPT ![id] = c.val]
          /\ IF c.ok
             THEN /\ recycler_objs' =
                        [recycler_objs EXCEPT ![req[t]].installed = TRUE]
                  /\ Goto(t, "idle", req[t])
             ELSE /\ recycler_objs' =
                        [recycler_objs EXCEPT ![req[t]].lost = TRUE]
                  /\ Goto(t, "delete", req[t])
    /\ UNCHANGED last
    /\ UNCHANGED RecyclerVars

\* lines 90-92: the loser deletes its recycler and calls heap_get_recycler
RcDelete(t) ==
    /\ pc[t] = "delete"
    /\ recycler_objs' = [recycler_objs EXCEPT ![req[t]].deletes = @ + 1]
    /\ Goto(t, "load", 0)
    /\ UNCHANGED <<recycler_ptr, last>>
    /\ UNCHANGED RecyclerVars

\* heap_cleanup (heap_default_zoneset_cleanup deletes the recyclers of the
\* zone set) and heap_boot, which starts with empty slots
RcCleanup ==
    /\ booted /\ \A t \in Threads : pc[t] = "idle"
    /\ \E id \in RunClasses : recycler_ptr[id] # 0
    /\ recycler_objs' =
           [p \in DOMAIN recycler_objs |->
               IF \E id \in RunClasses : recycler_ptr[id] = p
               THEN [recycler_objs[p] EXCEPT !.deletes = @ + 1]
               ELSE recycler_objs[p]]
    /\ recycler_ptr' = [id \in RunClasses |-> 0]
    /\ req' = [t \in Threads |-> 0]
    /\ last' = [op |-> "cleanup", ret |-> 0]
    /\ UNCHANGED pc
    /\ UNCHANGED RecyclerVars

NextRecycler ==
    \/ \E t \in Threads : RcCall(t)
    \/ \E t \in Threads, id \in RunClasses : RcLoad(t, id)
    \/ \E t \in Threads : RcNew(t)
    \/ \E t \in Threads, id \in RunClasses : RcCas(t, id)
    \/ \E t \in Threads : RcDelete(t)
    \/ RcCleanup

SpecRecycler == Init /\ [][NextRecycler]_vars

\* -------------------------------- coalescing in one zone (SpecCoalesce)
\* The heap has one populated zone of WideChunks chunks, wide enough for
\* three adjacent extents with footers (the coalescing code does not read
\* MAX_CHUNK).  Huge blocks of every size are allocated and freed in any
\* order; every free returns the chunk through heap_free_chunk_reuse.
WideZone ==
    [[ZeroRegion EXCEPT
         !.sizep = HEAP_HDR_SIZE + ZONE_HDR_SIZE
                       + (CHUNK_HDR_SIZE + CHUNKSIZE) * WideChunks,
         !.header = heap_write_header,
         !.hdr[0] = [c \in 0..(WideChunks - 1) |-> ZeroHdr]]
        EXCEPT !.nzones = 1]

\* heap_zone_init of the zone as heap_populate_bucket runs it, the zone
\* having WideChunks chunks
InitCoalesce ==
    /\ \E Z \in {[memblock_huge_init(WideZone, 0, 0, WideChunks)
                      EXCEPT !.zhdr[0] = [magic |-> ZONE_HEADER_MAGIC,
                                          size_idx |-> WideChunks],
                             !.zones_exhausted = 1]} :
       \E P \in {heap_reclaim_zone_garbage(Z, 0)} : Install0(P)
    /\ heap_size = sizep
    /\ booted = TRUE
    /\ bucket_owner = [id \in RunClasses |-> 0]
    /\ pc = [t \in Threads |-> "idle"]
    /\ req = [t \in Threads |-> 0]
    /\ live = {}
    /\ last = [op |-> "boot", ret |-> 0]
    /\ track_stats = FALSE
    /\ alloc_classes = ModelClasses
    /\ bucket_lock = [b \in BucketLocks |-> 0]
    /\ held = [t \in Threads |-> <<>>]
    /\ recycler_ptr = [id \in RunClasses |-> 0]
    /\ recycler_objs = <<>>
    /\ trace = <<>>

NextCoalesce ==
    \/ \E t \in Threads, units \in 1..WideChunks : AllocHuge(t, units)
    \/ \E t \in Threads, m \in live : Free(t, m)

SpecCoalesce == InitCoalesce /\ [][NextCoalesce]_vars

\* ------------------------------------------------------------ claims
\* C8: heap_init with heap_size < HEAP_MIN_SIZE returns EINVAL and leaves
\* the region and *sizep as they were; with heap_size >= HEAP_MIN_SIZE it
\* returns 0, the heap header it wrote verifies and *sizep = heap_size.
C8_heap_init ==
    [][last'.op = "init" =>
           IF heap_size < HEAP_MIN_SIZE
           THEN /\ last'.ret = EINVAL
                /\ UNCHANGED <<sizep, header, zhdr, hdr, chunk_run>>
           ELSE /\ last'.ret = 0
                /\ heap_verify_header(header') = 0
                /\ sizep' = heap_size]_vars

\* heap_init refused a region that is too small and holds a broken header
C8_witness ==
    /\ last = [op |-> "init", ret |-> EINVAL]
    /\ heap_size < HEAP_MIN_SIZE
    /\ ~header.checksum

\* the walk over the top-level chunk headers of zone z from chunk i, with
\* n headers left to visit: the index it ends on, or -1 when it meets a
\* header of unknown type or with invalid flags, or does not end
RECURSIVE WalkEnd(_, _, _)
WalkEnd(z, i, n) ==
    IF i >= zhdr[z].size_idx THEN i
    ELSE IF n = 0 THEN 0 - 1
    ELSE IF \/ hdr[z][i].type = CHUNK_TYPE_UNKNOWN
            \/ hdr[z][i].type >= MAX_CHUNK_TYPE
            \/ hdr[z][i].flags \ CHUNK_FLAGS_ALL_VALID # {}
    THEN 0 - 1
    ELSE WalkEnd(z, i + hdr[z][i].size_idx, n - 1)

ZoneConsistent(z) ==
    \/ zhdr[z].magic = 0
    \/ /\ zhdr[z].magic = ZONE_HEADER_MAGIC
       /\ zhdr[z].size_idx # 0
       /\ WalkEnd(z, 0, MAX_CHUNK) = zhdr[z].size_idx

RegionConsistent ==
    /\ heap_size >= HEAP_MIN_SIZE
    /\ header.checksum /\ header.signature
    /\ \A z \in ZoneIds : z < heap_max_zone(heap_size) => ZoneConsistent(z)

\* C9: heap_check returns 0 exactly when heap_size >= HEAP_MIN_SIZE, the
\* header's checksum and signature are valid and every zone is consistent
\* (magic 0, or the magic with a non-zero size_idx and valid top-level
\* chunk headers adding up to it); in every other case it returns -1.
C9_heap_check ==
    last.op = "check" =>
        /\ last.ret = 0 <=> RegionConsistent
        /\ ~RegionConsistent => last.ret = 0 - 1

\* C10: whatever the region holds, heap_check returns, with 0 or -1.
C10_heap_check_returns ==
    last.op = "check" => last.ret \in {0, 0 - 1}

\* C9 apart from the calls that do not return
C9_when_returning ==
    (last.op = "check" /\ last.ret # LOOPS_FOREVER) =>
        /\ last.ret = 0 <=> RegionConsistent
        /\ ~RegionConsistent => last.ret = 0 - 1

\* the indexes of the top-level chunk headers of zone z: chunk 0 and every
\* chunk that a header's size_idx leads to (n headers left to visit)
RECURSIVE TopLevel(_, _, _)
TopLevel(z, i, n) ==
    IF i >= zhdr[z].size_idx \/ n = 0 THEN {}
    ELSE {i} \cup (IF hdr[z][i].size_idx <= 0 THEN {}
                   ELSE TopLevel(z, i + hdr[z][i].size_idx, n - 1))

TopLevelTypes == {CHUNK_TYPE_FREE, CHUNK_TYPE_USED, CHUNK_TYPE_RUN}

\* C1: no two blocks that were returned by heap_get_bestfit_block and are
\* not yet freed share a chunk of a huge extent or a cell of a run.
C1_no_aliasing ==
    \A a, b \in live : a # b => Extent(a) \cap Extent(b) = {}

\* C2: in every zone whose magic is set, the walk over the chunk headers
\* from chunk 0, advancing by size_idx, visits only FREE, USED and RUN
\* headers and ends exactly on the zone's size_idx.
C2_header_walk ==
    \A z \in ZoneIds :
        zhdr[z].magic = ZONE_HEADER_MAGIC =>
            /\ \A i \in TopLevel(z, 0, MAX_CHUNK) :
                   hdr[z][i].type \in TopLevelTypes /\ hdr[z][i].size_idx >= 1
            /\ WalkEnd(z, 0, MAX_CHUNK) = zhdr[z].size_idx

\* a zone that was split into a USED chunk and a run
C2_witness ==
    /\ zhdr[0].magic = ZONE_HEADER_MAGIC
    /\ hdr[0][0].type = CHUNK_TYPE_USED /\ hdr[0][0].size_idx = 1
    /\ hdr[0][1].type = CHUNK_TYPE_RUN

\* C3: in every zone whose magic is set, no two consecutive top-level
\* chunks are both FREE.
C3_no_adjacent_free ==
    \A z \in ZoneIds :
        zhdr[z].magic = ZONE_HEADER_MAGIC =>
            \A i \in TopLevel(z, 0, MAX_CHUNK) :
                (/\ hdr[z][i].type = CHUNK_TYPE_FREE
                 /\ i + hdr[z][i].size_idx < zhdr[z].size_idx)
                    => hdr[z][i + hdr[z][i].size_idx].type # CHUNK_TYPE_FREE

\* the cells of a free range of a run's container, as Extent gives them
RunExtent(act, e) ==
    {<<act.zone_id, act.chunk_id, o>> :
        o \in e.block_off..(e.block_off + e.size_idx - 1)}

\* heap_get_bestfit_block on the default bucket of the current state, for
\* `units` chunks: on success the block has `units` chunks, what the
\* taken extent had beyond them is in the default bucket, and the bucket
\* holds no chunk of the block
C4_huge(units) ==
    \A r \in {heap_get_bestfit_block(Heap, units)} :
        r.ret = 0 =>
            /\ r.m.size_idx = units
            /\ r.taken >= units
            /\ r.taken > units =>
                   HugeKey(r.m.zone_id, r.m.chunk_id + units, r.taken - units)
                       \in r.S.default_bucket
            /\ \A k \in r.S.default_bucket :
                   Extent(Block(k.zone_id, k.chunk_id, k.size_idx, 0, "HUGE",
                                "NONE")) \cap Extent(r.m) = {}

\* the same for the bucket of a run class that holds a fitting range
C4_run(id, units) ==
    \A a \in {bucket_alloc_block(Heap, id, units)} :
        a.ret = 0 =>
            \A r \in {heap_get_bestfit_block_tail(a.S, id, a.m, units)} :
                /\ r.ret = 0
                /\ r.m.size_idx = units
                /\ r.taken >= units
                /\ r.taken > units =>
                       [block_off |-> r.m.block_off + units,
                        size_idx |-> r.taken - units]
                           \in r.S.buckets[id].cont
                /\ \A e \in r.S.buckets[id].cont :
                       RunExtent(r.S.buckets[id].active, e)
                           \cap Extent(r.m) = {}

C5_header_type ==
    \A b \in live :
        b.header_type =
            alloc_class_by_id(IF b.type = "HUGE" THEN DEFAULT_ALLOC_CLASS_ID
                              ELSE RUN_CLASS_ID).header_type

\* a huge block and a run block are live
C5_witness ==
    /\ \E b \in live : b.type = "HUGE"
    /\ \E b \in live : b.type = "RUN"

\* C6: once booted, zones_exhausted <= nzones.
C6_zones_exhausted ==
    booted => zones_exhausted <= nzones

\* every zone is populated and a thread is in the last part of a refill
C6_witness ==
    /\ booted /\ nzones > 1 /\ zones_exhausted = nzones
    /\ \E t \in Threads : pc[t] = "refill3"

\* every zone is populated, every run is full and no FREE chunk has
\* `units` chunks
OutOfMemory(units) ==
    /\ booted
    /\ zones_exhausted = nzones
    /\ \A z \in ZoneIds : \A i \in TopLevel(z, 0, MAX_CHUNK) :
           /\ hdr[z][i].type = CHUNK_TYPE_RUN =>
                  chunk_run[z][i].bitmap = Cells
           /\ hdr[z][i].type = CHUNK_TYPE_FREE => hdr[z][i].size_idx < units

\* the failed call left S: heap_check passes, live blocks are as before
FailedCleanly(r) ==
    /\ r.ret = ENOMEM
    /\ heap_check(r.S, heap_size) = 0
    /\ \A b \in live :
           /\ r.S.hdr[b.zone_id][b.chunk_id] = hdr[b.zone_id][b.chunk_id]
           /\ r.S.chunk_run[b.zone_id][b.chunk_id]
                  = chunk_run[b.zone_id][b.chunk_id]

\* C7: with every zone populated, every run full and no fitting free
\* extent, heap_get_bestfit_block returns ENOMEM, the region still passes
\* heap_check and no live block has changed; for the default bucket, and
\* for a run bucket in the last part of its refill.
C7_out_of_memory ==
    /\ \A units \in 1..MaxHugeUnits :
           OutOfMemory(units) =>
               \A r \in {heap_get_bestfit_block(Heap, units)} :
                   FailedCleanly(r)
    /\ \A t \in Threads, id \in RunClasses :
           (/\ pc[t] = "refill3" /\ bucket_owner[id] = t
            /\ OutOfMemory(alloc_class_by_id(id).size_idx)) =>
               \A r \in {heap_ensure_run_bucket_filled_3(Heap, id, req[t])} :
                   FailedCleanly(r)


\* heap_ensure_run_bucket_filled without lines 706-713: after the first
\* heap_reuse_from_recycler the fresh run is tried at once
heap_ensure_run_bucket_filled_fresh(S, id, units) ==
    LET second(p) ==
            IF p.ret = 0 THEN p
            ELSE heap_ensure_run_bucket_filled_3(p.S, id, units)
    IN The({second(p) :
               p \in {heap_ensure_run_bucket_filled_1(S, id, units)}})

\* ------------------------------- one caller, call by call (SpecSeq)
\* heap_ensure_run_bucket_filled, lines 689-742, run in one piece: each
\* part ends the call when it filled the bucket
heap_ensure_run_bucket_filled(S, id, units) ==
    LET third(q) ==
            IF q.ret = 0 THEN q
            ELSE heap_ensure_run_bucket_filled_3(q.S, id, units)
        second(p) ==
            IF p.ret = 0 THEN p
            ELSE The({third(q) :
                         q \in {heap_ensure_run_bucket_filled_2(p.S, id,
                                                                units)}})
    IN The({second(p) :
               p \in {heap_ensure_run_bucket_filled_1(S, id, units)}})

\* heap_get_bestfit_block on a class bucket, lines 819-845: the loop over
\* bucket_alloc_block and heap_ensure_run_bucket_filled
RECURSIVE heap_get_bestfit_block_class(_, _, _)
heap_get_bestfit_block_class(S, id, units) ==
    LET refilled(f) ==
            IF f.ret # 0 THEN [S |-> f.S, ret |-> ENOMEM, m |-> NoBlock]
            ELSE heap_get_bestfit_block_class(f.S, id, units)
        got(a) ==
            IF a.ret = 0
            THEN The({[S |-> r.S, ret |-> 0, m |-> r.m] :
                         r \in {heap_get_bestfit_block_tail(a.S, id, a.m,
                                                            units)}})
            ELSE The({refilled(f) :
                         f \in {heap_ensure_run_bucket_filled(S, id,
                                                              units)}})
    IN The({got(a) : a \in {bucket_alloc_block(S, id, units)}})

\* one recorded call: the operation, its class and size, what it returned
Event(op, id, units, ret, m) ==
    [op |-> op, id |-> id, units |-> units, ret |-> ret, m |-> m]

InitSeq == InitHeap /\ alloc_classes = ModelClasses /\ track_stats = TRUE

SeqCall == Len(trace) < MaxTrace

\* an allocation of the default class or of a run class, to its end
SqAlloc(id, units) ==
    /\ Usable
    /\ \E H \in {Heap} :
       \E r \in {IF id = DEFAULT_ALLOC_CLASS_ID
                 THEN heap_get_bestfit_block(H, units)
                 ELSE heap_get_bestfit_block_class(H, id, units)} :
       \E P \in {IF r.ret = 0 THEN palloc_publish(r.S, r.m) ELSE r.S} :
           /\ InstallHeap(P)
           /\ live' = IF r.ret = 0 THEN live \cup {r.m} ELSE live
           /\ trace' = Append(trace, Event("alloc", id, units, r.ret, r.m))
    /\ UNCHANGED <<heap_size, booted, bucket_owner, pc, req, last>>

\* a live block is freed
SqFree(m) ==
    /\ Usable /\ m \in live
    /\ \E H \in {Heap} : \E F \in {palloc_free(H, m)} : InstallHeap(F)
    /\ live' = live \ {m}
    /\ trace' = Append(trace, Event("free", 0, m.size_idx, 0, m))
    /\ UNCHANGED <<heap_size, booted, bucket_owner, pc, req, last>>

\* heap_reclaim_garbage, lines 540-557: heap_recycle_unused with force = 1
\* on every recycler, which runs recycler_recalc with force = true
SqReclaim ==
    /\ Usable
    /\ \E H \in {Heap} : \E g \in {heap_reclaim_garbage(H)} :
       /\ InstallHeap(g.S)
       /\ trace' = Append(trace, Event("reclaim", 0, 0, g.ret, NoBlock))
    /\ UNCHANGED <<heap_size, booted, bucket_owner, pc, req, live, last>>

\* heap_cleanup and heap_boot of the same region
SqBoot ==
    /\ Usable
    /\ \E H \in {Heap} : \E r \in {heap_boot(H, heap_size)} :
       /\ InstallHeap(r.S)
       /\ trace' = Append(trace, Event("boot", 0, 0, r.ret, NoBlock))
    /\ UNCHANGED <<heap_size, booted, bucket_owner, pc, req, live, last>>

NextSeq ==
    \/ SeqCall /\ \E units \in 1..MaxHugeUnits :
                      SqAlloc(DEFAULT_ALLOC_CLASS_ID, units)
    \/ SeqCall /\ \E id \in RunClasses, units \in 1..RUN_NALLOCS :
                      SqAlloc(id, units)
    \/ SeqCall /\ \E m \in live : SqFree(m)
    \/ SeqCall /\ SqReclaim
    \/ SeqCall /\ SqBoot

SpecSeq == InitSeq /\ [][NextSeq]_vars

\* ------------------ allocate, free everything, allocate again (SpecRound)
\* the requests a caller can make: the class and the number of units
Requests ==
    ({DEFAULT_ALLOC_CLASS_ID} \X (1..MaxHugeUnits))
        \cup (RunClasses \X (1..RUN_NALLOCS))

\* the allocations of request q among the calls lo..hi
Asked(lo, hi, q) ==
    Cardinality({i \in lo..hi : /\ trace[i].op = "alloc"
                                /\ trace[i].id = q[1]
                                /\ trace[i].units = q[2]})

\* the allocations the trace starts with, and the frees in the trace
FirstRound ==
    Cardinality({i \in 1..Len(trace) :
                    \A k \in 1..i : trace[k].op = "alloc"})

Frees == Cardinality({i \in 1..Len(trace) : trace[i].op = "free"})

Served == \A i \in 1..Len(trace) : trace[i].ret = 0

\* first round: up to MaxRound allocations, all of them served
RdAlloc(q) ==
    /\ Served /\ FirstRound = Len(trace) /\ FirstRound < MaxRound
    /\ SqAlloc(q[1], q[2])

\* the blocks of the first round are freed, in any order
RdFree(m) ==
    /\ Served /\ Len(trace) = FirstRound + Frees
    /\ SqFree(m)

\* second round, once every block is freed: the requests of the first
\* round again, in any order
RdAgain(q) ==
    /\ Served /\ FirstRound >= 1 /\ Frees = FirstRound
    /\ Asked(2 * FirstRound + 1, Len(trace), q) < Asked(1, FirstRound, q)
    /\ SqAlloc(q[1], q[2])

NextRound ==
    \/ \E q \in Requests : RdAlloc(q)
    \/ \E m \in live : RdFree(m)
    \/ \E q \in Requests : RdAgain(q)

SpecRound == InitSeq /\ [][NextRound]_vars

\* ------------------------------- heap_boot and its failures (SpecBoot)
\* the volatile allocations of heap_boot, one of which may fail: the
\* heap_rt (line 1001), the class collection (line 1007), the zone set
\* (line 1030)
BootFailures == {"none", "heap_rt", "alloc_classes", "zoneset"}

\* the sizes of the mapping handed to heap_boot
BootSizes == (HEAP_MIN_SIZE - 1)..MaxRegionSize

\* heap_boot that frees the heap_rt on a failure and keeps heap->rt
heap_boot_rt_kept(S, hsize, rt, fail) ==
    LET S1 == IF S.sizep = 0 THEN [S EXCEPT !.sizep = hsize] ELSE S IN
    IF hsize < S1.sizep THEN [S |-> S1, ret |-> EINVAL, rt |-> rt]
    ELSE IF fail = "heap_rt" THEN [S |-> S1, ret |-> ENOMEM, rt |-> rt]
    ELSE IF fail = "alloc_classes" THEN [S |-> S1, ret |-> ENOMEM, rt |-> rt]
    ELSE IF fail = "zoneset" THEN [S |-> S1, ret |-> ENOMEM, rt |-> TRUE]
    ELSE [S |-> heap_boot(S, hsize).S, ret |-> 0, rt |-> TRUE]

\* heap_boot, lines 978-1048, with heap->rt (rt: it is not NULL) and the
\* failure of a volatile allocation: the size field is fixed first, then
\* the size is checked, then the runtime is built
heap_boot_rt(S, hsize, rt, fail) ==
    LET S1 == IF S.sizep = 0 THEN [S EXCEPT !.sizep = hsize] ELSE S IN
    IF hsize < S1.sizep THEN [S |-> S1, ret |-> EINVAL, rt |-> rt]
    ELSE IF fail = "heap_rt" THEN [S |-> S1, ret |-> ENOMEM, rt |-> rt]
    ELSE IF fail \in {"alloc_classes", "zoneset"}
    THEN [S |-> S1, ret |-> ENOMEM, rt |-> FALSE]
    ELSE [S |-> heap_boot(S, hsize).S, ret |-> 0, rt |-> TRUE]

\* a region that heap_init wrote, its size field zero when heap_init was
\* interrupted; no runtime exists
InitBoot ==
    /\ heap_size \in BootSizes /\ heap_size >= HEAP_MIN_SIZE
    /\ \E i \in {heap_init(ZeroRegion, heap_size)} :
       \E z \in {0, heap_size} : Install0([i.S EXCEPT !.sizep = z])
    /\ booted = FALSE
    /\ bucket_owner = [id \in RunClasses |-> 0]
    /\ pc = [t \in Threads |-> "idle"]
    /\ req = [t \in Threads |-> 0]
    /\ live = {}
    /\ last = [op |-> "init", ret |-> 0]
    /\ track_stats = TRUE
    /\ alloc_classes = ModelClasses
    /\ bucket_lock = [b \in BucketLocks |-> 0]
    /\ held = [t \in Threads |-> <<>>]
    /\ recycler_ptr = [id \in RunClasses |-> 0]
    /\ recycler_objs = <<>>
    /\ trace = <<>>

\* heap_boot on a mapping of hsize bytes; a failed call can be repeated
HeapBootAt(hsize, fail) ==
    /\ ~booted
    /\ \E H \in {Heap} : \E r \in {heap_boot_rt(H, hsize, booted, fail)} :
           /\ Install(r.S)
           /\ booted' = r.rt
           /\ last' = [op |-> "boot", ret |-> r.ret]
    /\ heap_size' = hsize
    /\ UNCHANGED <<bucket_owner, pc, req, live>>

NextBoot == \E hsize \in BootSizes, fail \in BootFailures :
                HeapBootAt(hsize, fail)

SpecBoot == InitBoot /\ [][NextBoot]_vars

\* the first byte past the chunk payload of the last zone of the booted heap
PastLastZone ==
    ZID_TO_ZONE(nzones - 1) + ZONE_META_SIZE
        + zone_calc_size_idx(nzones - 1, nzones, sizep) * CHUNKSIZE

\* C11: in every state after a successful heap_boot, heap_end is the first
\* byte past the heap, the end of the chunk payload of the last zone,
\* whether or not the last zone has been populated.
C11_heap_end ==
    (booted /\ nzones > 0) => heap_end(Heap) = PastLastZone

\* C11 for the states in which the last zone has been populated
C11_when_populated ==
    (booted /\ nzones > 0 /\ zones_exhausted = nzones)
        => heap_end(Heap) = PastLastZone


C13_lock_order ==
    \A t \in Threads :
        /\ Cardinality({i \in DOMAIN held[t] :
                            held[t][i].bucket = "buckets"}) <= 1
        /\ \A i \in DOMAIN held[t] :
               held[t][i] = DefaultBucketLock =>
                   /\ i = Len(held[t])
                   /\ i = 1 \/ (i = 2 /\ held[t][1].bucket = "buckets")
        /\ \A b \in BucketLocks :
               bucket_lock[b] = t <=> \E i \in DOMAIN held[t] : held[t][i] = b

\* one thread refilling the bucket of class 1 holds the default bucket,
\* the other holds the bucket of class 2 and waits for the default bucket
C13_witness ==
    \E t, u \in Threads :
        /\ held[t] = <<ClassBucketLock(1), DefaultBucketLock>>
        /\ pc[t] = "populated"
        /\ held[u] = <<ClassBucketLock(2)>>
        /\ pc[u] \in {"discard", "recycle", "populate", "create"}


\* what holds of the slot of class id and of the recycler objects in
\* every state of the race
RecyclerInstalled(id) ==
    /\ Cardinality({p \in DOMAIN recycler_objs :
                        /\ recycler_objs[p].installed
                        /\ recycler_objs[p].deletes = 0}) <= 1
    /\ recycler_ptr[id] # 0 =>
           /\ recycler_objs[recycler_ptr[id]].installed
           /\ recycler_objs[recycler_ptr[id]].deletes = 0
    /\ \A t \in Threads :
           (pc[t] = "idle" /\ req[t] # 0) => req[t] = recycler_ptr[id]
    /\ \A p \in DOMAIN recycler_objs :
           /\ recycler_objs[p].lost =>
                  /\ ~recycler_objs[p].installed
                  /\ recycler_objs[p].deletes =
                         IF /\ pc[recycler_objs[p].by] = "delete"
                            /\ req[recycler_objs[p].by] = p
                         THEN 0 ELSE 1
           /\ recycler_objs[p].installed =>
                  /\ ~recycler_objs[p].lost
                  /\ recycler_objs[p].deletes <= 1
                  /\ recycler_objs[p].deletes = 1 => recycler_ptr[id] # p

\* C14: when several threads call heap_get_recycler for one class id, at
\* most one recycler is installed in zone_set.recyclers[id]; a non-NULL
\* slot does not change before cleanup; a thread that gets a non-NULL
\* result gets the installed recycler; a recycler that lost the
\* compare-and-swap is deleted exactly once, the installed one never by a
\* loser.
C14_recycler_race ==
    /\ [](\A id \in RunClasses : RecyclerInstalled(id))
    /\ [][\A id \in RunClasses :
              (recycler_ptr[id] # 0 /\ recycler_ptr'[id] # recycler_ptr[id])
                  => /\ recycler_ptr'[id] = 0
                     /\ \A t \in Threads : pc[t] = "idle"]_vars

\* both threads built a recycler: one is installed, the loser has deleted
\* its own and got the installed one
C14_witness ==
    /\ Len(recycler_objs) = 2
    /\ recycler_objs[1].by # recycler_objs[2].by
    /\ \E p \in 1..2 :
           /\ recycler_objs[p].lost /\ recycler_objs[p].deletes = 1
           /\ pc[recycler_objs[p].by] = "idle"
           /\ req[recycler_objs[p].by] = recycler_ptr[RUN_CLASS_ID]
           /\ req[recycler_objs[p].by] # p


\* the chunks of zone 0 that no live block covers: every one of them was
\* returned to the default bucket through heap_free_chunk_reuse
Returned == {c \in 0..(WideChunks - 1) : \A b \in live : <<0, c, 0>> \notin Extent(b)}

\* the maximal sets of adjacent returned chunks, as (first chunk, size)
ReturnedRuns ==
    {k \in [zone_id : {0}, chunk_id : 0..(WideChunks - 1),
            size_idx : 1..WideChunks] :
        /\ k.chunk_id + k.size_idx <= WideChunks
        /\ \A c \in k.chunk_id..(k.chunk_id + k.size_idx - 1) : c \in Returned
        /\ (k.chunk_id - 1) \notin Returned
        /\ (k.chunk_id + k.size_idx) \notin Returned}

\* C15: the adjacent FREE chunks of a zone that were returned to the
\* default bucket through heap_free_chunk_reuse, in any order, are held
\* by the bucket as one single block that starts at the lowest chunk id
\* and has the sum of their size_idx, and a request for that size_idx
\* succeeds.
C15_coalesced ==
    /\ default_bucket = ReturnedRuns
    /\ \A k \in ReturnedRuns :
           /\ hdr[0][k.chunk_id].type = CHUNK_TYPE_FREE
           /\ hdr[0][k.chunk_id].size_idx = k.size_idx
           /\ \A r \in {heap_get_bestfit_block(Heap, k.size_idx)} : r.ret = 0

\* three adjacent blocks of 1, 2 and 1 chunks were freed, the middle one
\* last: the bucket holds the whole zone as one block
C15_witness ==
    /\ live = {}
    /\ default_bucket = {HugeKey(0, 0, WideChunks)}
    /\ hdr[0][1] = [type |-> CHUNK_TYPE_FREE, flags |-> {"COMPACT_HEADER"},
                    size_idx |-> 2]
    /\ hdr[0][2].type = CHUNK_TYPE_FOOTER /\ hdr[0][2].size_idx = 2

\* C16: a run cell that was freed is returned by a later allocation of its
\* class only if recycler_recalc was called on the class recycler after the
\* free: no live run block covers a cell freed with no such call since.
C16_only_after_recalc ==
    \A b \in live : \A id \in RunClasses :
        b.type = "RUN" => Extent(b) \cap unseen[id] = {}

\* C17: one cell of a run class is allocated and freed (with
\* heap_memblock_on_free), recycler_recalc runs with force = true, and the
\* next allocation of the same class and size returns the same position:
\* same zone, chunk and block_off.
C17_same_cell ==
    \A i \in 1..(Len(trace) - 3) :
        ( /\ trace[i].op = "alloc" /\ trace[i].ret = 0
          /\ trace[i].id \in RunClasses /\ trace[i].units = 1
          /\ trace[i + 1].op = "free" /\ trace[i + 1].m = trace[i].m
          /\ trace[i + 2].op = "reclaim"
          /\ trace[i + 3].op = "alloc"
          /\ trace[i + 3].id = trace[i].id
          /\ trace[i + 3].units = trace[i].units )
        => /\ trace[i + 3].ret = 0
           /\ trace[i + 3].m.zone_id = trace[i].m.zone_id
           /\ trace[i + 3].m.chunk_id = trace[i].m.chunk_id
           /\ trace[i + 3].m.block_off = trace[i].m.block_off

ZoneBlocks(S, z) == {k \in S.default_bucket : k.zone_id = z}

ZoneRuns(S, z) ==
    [id \in RunClasses |-> {e \in S.recyclers[id].runs : e.zone_id = z}]

\* the heap right after heap_populate_bucket populated the next zone, then
\* heap_reclaim_zone_garbage of that zone on the same headers under the
\* volatile state of a new heap_boot
Replay ==
    {[zone_id |-> zones_exhausted, first |-> p.S,
      again |-> heap_reclaim_zone_garbage(heap_boot(p.S, heap_size).S,
                                          zones_exhausted)] :
        p \in {heap_populate_bucket(Heap)}}

\* C19: populating a zone is repeatable: heap_reclaim_zone_garbage on a copy
\* of the populated zone's headers, under fresh volatile state, yields the
\* same free blocks in the default bucket and the same recycler elements,
\* and leaves every header as it is in the copy.
C19_replay ==
    (booted /\ zones_exhausted < nzones) =>
        \A x \in Replay :
            /\ ZoneBlocks(x.again, x.zone_id) = ZoneBlocks(x.first, x.zone_id)
            /\ ZoneRuns(x.again, x.zone_id) = ZoneRuns(x.first, x.zone_id)
            /\ x.again.zhdr = x.first.zhdr
            /\ x.again.hdr = x.first.hdr
            /\ x.again.chunk_run = x.first.chunk_run

\* the volatile state holds nothing of the zone that is populated next: no
\* block of it in the default bucket, no run of it in a recycler or attached
\* to a bucket
NextZoneUnknown ==
    /\ ZoneBlocks(Heap, zones_exhausted) = {}
    /\ \A id \in RunClasses :
           /\ ZoneRuns(Heap, zones_exhausted)[id] = {}
           /\ buckets[id].active.zone_id # zones_exhausted

\* the replay of C19 for a zone the volatile state holds nothing of
C19_replay_unknown ==
    (booted /\ zones_exhausted < nzones /\ NextZoneUnknown) =>
        \A x \in Replay :
            /\ ZoneBlocks(x.again, x.zone_id) = ZoneBlocks(x.first, x.zone_id)
            /\ ZoneRuns(x.again, x.zone_id) = ZoneRuns(x.first, x.zone_id)
            /\ x.again.zhdr = x.first.zhdr
            /\ x.again.hdr = x.first.hdr
            /\ x.again.chunk_run = x.first.chunk_run

\* the class of the run in chunk c of zone z, 0 when it is of no known class
RunClassOf(z, c) ==
    alloc_class_by_run(chunk_run[z][c].block_size, hdr[z][c].flags,
                       hdr[z][c].size_idx)

\* the non-empty runs of a known class in zone z, and those of them that
\* have a free block of at least units cells
NonEmptyRuns(z) ==
    {c \in TopLevel(z, 0, MAX_CHUNK) :
        /\ hdr[z][c].type = CHUNK_TYPE_RUN
        /\ RunClassOf(z, c) # 0
        /\ chunk_run[z][c].bitmap # {}}

PartialRuns(z, units) ==
    {c \in NonEmptyRuns(z) :
        \E r \in FreeRanges(chunk_run[z][c].bitmap) : r.size_idx >= units}

\* a step from the state right after a successful heap_boot: the next call
\* is an allocation of a run class
BootThenAlloc ==
    /\ trace # <<>>
    /\ trace[Len(trace)].op = "boot" /\ trace[Len(trace)].ret = 0
    /\ Len(trace') = Len(trace) + 1
    /\ trace'[Len(trace')].op = "alloc"
    /\ trace'[Len(trace')].id \in RunClasses

\* every non-empty run of a known class in the zones populated by the step
\* is in the recycler of its class, or attached to its bucket
RunsRecycled ==
    \A z \in ZoneIds : \A c \in NonEmptyRuns(z) :
        (zones_exhausted <= z /\ z < zones_exhausted') =>
            \/ \E e \in recyclers'[RunClassOf(z, c)].runs :
                   e.zone_id = z /\ e.chunk_id = c
            \/ buckets'[RunClassOf(z, c)].active =
                   [zone_id |-> z, chunk_id |-> c]

\* the allocation of the step is served from a run that was non-empty and
\* had room before the step
ServedFromPartial ==
    /\ trace'[Len(trace')].ret = 0
    /\ trace'[Len(trace')].m.chunk_id
           \in PartialRuns(trace'[Len(trace')].m.zone_id,
                           trace'[Len(trace')].units)

RoomyRuns(z, id, units) ==
    {c \in TopLevel(z, 0, MAX_CHUNK) :
        /\ hdr[z][c].type = CHUNK_TYPE_RUN
        /\ RunClassOf(z, c) = id
        /\ \E r \in FreeRanges(chunk_run[z][c].bitmap) : r.size_idx >= units}

heap_memblock_on_free_discard(S, m, oom) ==
    IF m.type # "RUN" THEN S
    ELSE heap_discard_run(S, HugeKey(m.zone_id, m.chunk_id,
                                     S.hdr[m.zone_id][m.chunk_id].size_idx))

\* heap_memblock_on_free, lines 748-777; oom says that recycler_new returns
\* NULL when heap_get_recycler has to create the recycler
heap_memblock_on_free_oom(S, m, oom) ==
    IF m.type # "RUN" THEN S
    ELSE LET h == S.hdr[m.zone_id][m.chunk_id]
             run == S.chunk_run[m.zone_id][m.chunk_id]
             account(c) ==
                 IF c = 0 THEN S
                 ELSE IF oom /\ ~S.recyclers[c].exists THEN S
                 ELSE heap_memblock_on_free(S, m)
         IN The({account(c) :
                    c \in {alloc_class_by_run(run.block_size, h.flags,
                                              h.size_idx)}})

\* The heap as heap_memblock_on_free finds it when block m is freed: the
\* bits of a run block are cleared, a huge block is a free chunk again.
Freed(S, m) ==
    IF m.type = "HUGE" THEN palloc_free(S, m)
    ELSE [S EXCEPT !.chunk_run[m.zone_id][m.chunk_id].bitmap =
              @ \ (m.block_off..(m.block_off + m.size_idx - 1))]

FrFree(m, oom) ==
    /\ Usable /\ m \in live
    /\ \E H \in {Heap} :
       \E F \in {heap_memblock_on_free_oom(Freed(H, m), m, oom)} :
           InstallHeap(F)
    /\ live' = live \ {m}
    /\ trace' = Append(trace, Event("free", 0, m.size_idx, 0, m))
    /\ UNCHANGED <<heap_size, booted, bucket_owner, pc, req, last>>

NextFree ==
    \/ SeqCall /\ \E units \in 1..MaxHugeUnits :
                      SqAlloc(DEFAULT_ALLOC_CLASS_ID, units)
    \/ SeqCall /\ \E id \in RunClasses, units \in 1..RUN_NALLOCS :
                      SqAlloc(id, units)
    \/ SeqCall /\ \E m \in live, oom \in BOOLEAN : FrFree(m, oom)
    \/ SeqCall /\ SqReclaim
    \/ SeqCall /\ SqBoot

SpecFree == InitSeq /\ [][NextFree]_vars

\* ------------------------------------------------------------------ C23
\* The active run of bucket id as the memory block that
\* heap_detach_and_try_discard_run hands to heap_discard_run.
ActiveRun(id) ==
    HugeKey(buckets[id].active.zone_id, buckets[id].active.chunk_id,
            hdr[buckets[id].active.zone_id]
               [buckets[id].active.chunk_id].size_idx)

\* The heap after heap_discard_run on the detached active run of bucket id.
Discarded(id) == heap_discard_run(bucket_detach_run(Heap, id), ActiveRun(id))

\* The free block of the default bucket of heap D that covers block m.
Covering(D, m) ==
    {k \in D.default_bucket :
        /\ k.zone_id = m.zone_id
        /\ k.chunk_id <= m.chunk_id
        /\ m.chunk_id + m.size_idx <= k.chunk_id + k.size_idx}

\* Block k of heap D has a FREE header of its own size and no FREE
\* top-level chunk next to it.
Coalesced(D, k) ==
    /\ D.hdr[k.zone_id][k.chunk_id].type = CHUNK_TYPE_FREE
    /\ D.hdr[k.zone_id][k.chunk_id].size_idx = k.size_idx
    /\ \A j \in D.default_bucket :
           j.zone_id = k.zone_id
           => /\ j.chunk_id + j.size_idx # k.chunk_id
              /\ k.chunk_id + k.size_idx # j.chunk_id

C24_on_free ==
    \A m \in live : \A oom \in BOOLEAN :
    \A T \in {Freed(Heap, m)} :
    \A D \in {heap_memblock_on_free_oom(T, m, oom)} :
        IF m.type # "RUN" THEN D = T
        ELSE \A c \in {alloc_class_by_run(
                           T.chunk_run[m.zone_id][m.chunk_id].block_size,
                           T.hdr[m.zone_id][m.chunk_id].flags,
                           T.hdr[m.zone_id][m.chunk_id].size_idx)} :
             /\ c \in RunClasses
             /\ D.hdr = T.hdr /\ D.zhdr = T.zhdr /\ D.header = T.header
             /\ D.chunk_run = T.chunk_run
             /\ D.default_bucket = T.default_bucket
             /\ D.buckets = T.buckets
             /\ \A id \in DOMAIN T.recyclers :
                    /\ D.recyclers[id].runs = T.recyclers[id].runs
                    /\ id # c => D.recyclers[id] = T.recyclers[id]
             /\ IF oom /\ ~T.recyclers[c].exists
                THEN D = T
                ELSE /\ D.recyclers[c].exists
                     /\ D.recyclers[c].pending
                            = T.recyclers[c].pending + m.size_idx
             /\ heap_get_bestfit_block_class(D, c, m.size_idx).ret = 0

\* The last call freed a block of a run while the class had no recycler and
\* none could be created: the class still has no recycler, and a request
\* for as many cells is served.
C24_witness ==
    /\ Len(trace) >= 1
    /\ trace[Len(trace)].op = "free"
    /\ trace[Len(trace)].m.type = "RUN"
    /\ \E c \in RunClasses :
           /\ ~recyclers[c].exists
           /\ heap_get_bestfit_block_class(
                  Heap, c, trace[Len(trace)].m.size_idx).ret = 0

\* ------------------------------------------------------------------ C25
\* The runs that a forced recycler_recalc of the existing recyclers of heap
\* S emits: the runs of the recyclers without an allocated cell.
EmptyRuns(S) ==
    UNION {{[zone_id |-> e.zone_id, chunk_id |-> e.chunk_id] :
               e \in {x \in S.recyclers[id].runs :
                         S.chunk_run[x.zone_id][x.chunk_id].bitmap = {}}} :
              id \in {i \in RunClasses : S.recyclers[i].exists}}

\* C25: heap_ensure_huge_bucket_filled recalculates every existing recycler
\* (no free is left unaccounted, every run that stays in the recycler has
\* its current counts) and every emitted empty run lies in a FREE block of
\* the default bucket afterwards.  When a run was emitted the call returns
\* 0 and consumes no zone; otherwise it consumes exactly one zone and
\* returns 0 when a zone is left, and returns ENOMEM when none is left.
C25_huge_bucket_filled ==
    \A H \in {Heap} : \A r \in {heap_ensure_huge_bucket_filled(H)} :
        /\ \A id \in RunClasses :
               H.recyclers[id].exists
               => /\ r.S.recyclers[id].pending = 0
                  /\ \A e \in H.recyclers[id].runs :
                         H.chunk_run[e.zone_id][e.chunk_id].bitmap # {}
                         => recycler_element_new(H, e.zone_id, e.chunk_id)
                                \in r.S.recyclers[id].runs
        /\ \A e \in EmptyRuns(H) :
               /\ \A id \in RunClasses :
                      \A x \in r.S.recyclers[id].runs :
                          ~(x.zone_id = e.zone_id /\ x.chunk_id = e.chunk_id)
               /\ \E k \in r.S.default_bucket :
                      /\ k.zone_id = e.zone_id
                      /\ k.chunk_id <= e.chunk_id
                      /\ e.chunk_id < k.chunk_id + k.size_idx
                      /\ r.S.hdr[k.zone_id][k.chunk_id].type = CHUNK_TYPE_FREE
        /\ r.ret \in {0, ENOMEM}
        /\ r.S.zones_exhausted \in {H.zones_exhausted, H.zones_exhausted + 1}
        /\ r.S.zones_exhausted <= H.nzones
        /\ EmptyRuns(H) # {}
               => r.ret = 0 /\ r.S.zones_exhausted = H.zones_exhausted
        /\ (EmptyRuns(H) = {} /\ H.zones_exhausted < H.nzones)
               => r.ret = 0 /\ r.S.zones_exhausted = H.zones_exhausted + 1
        /\ r.ret = ENOMEM
               <=> (EmptyRuns(H) = {} /\ H.zones_exhausted = H.nzones)

\* A recycler holds a run without an allocated cell while a zone is still
\* unpopulated: the call makes the run a free chunk and leaves the zone.
C25_witness ==
    /\ EmptyRuns(Heap) # {}
    /\ zones_exhausted < nzones
    /\ heap_ensure_huge_bucket_filled(Heap).ret = 0
    /\ heap_ensure_huge_bucket_filled(Heap).S.zones_exhausted = zones_exhausted

\* ------------------------------------------------------------------ C26
\* The chunks of heap S that are the first chunk of a run.
RunChunks(S) ==
    {zc \in ZoneIds \X ChunkIds : S.hdr[zc[1]][zc[2]].type = CHUNK_TYPE_RUN}

RECURSIVE TopLevelOf(_, _, _, _)
TopLevelOf(S, z, i, n) ==
    IF i >= S.zhdr[z].size_idx \/ n = 0 THEN {}
    ELSE {i} \cup (IF S.hdr[z][i].size_idx <= 0 THEN {}
                   ELSE TopLevelOf(S, z, i + S.hdr[z][i].size_idx, n - 1))

TypeChanges ==
    {<<CHUNK_TYPE_FREE, CHUNK_TYPE_USED>>, <<CHUNK_TYPE_FREE, CHUNK_TYPE_RUN>>,
     <<CHUNK_TYPE_USED, CHUNK_TYPE_FREE>>, <<CHUNK_TYPE_RUN, CHUNK_TYPE_FREE>>}

\* Between heap S and heap T every chunk that is top-level in both keeps its
\* type or changes it along one of TypeChanges.
Allowed(S, T) ==
    \A z \in ZoneIds :
        \A c \in TopLevelOf(S, z, 0, MAX_CHUNK)
                     \cap TopLevelOf(T, z, 0, MAX_CHUNK) :
            \/ S.hdr[z][c].type = T.hdr[z][c].type
            \/ <<S.hdr[z][c].type, T.hdr[z][c].type>> \in TypeChanges

\* C27: in every reachable state, each stage of each call changes the type
\* of a top-level chunk only from FREE to USED, FREE to RUN, USED to FREE
\* or RUN to FREE: the search of heap_get_bestfit_block in the default
\* bucket, with its refill, and the publication of the block found; the
\* search in a class bucket with its refill; the free of a huge block;
\* heap_reclaim_garbage; heap_boot.  An allocation from a class bucket that
\* needs no refill, the publication of a run block and the free of a run
\* block leave every chunk header as it is.
\* Holds in every state of SpecSession.  After a Restart a block freed in a
\* zone that is not populated yet can become a run that the later scan of
\* its zone turns into a FREE chunk while the class bucket keeps it attached;
\* once that chunk is allocated as a huge block, the refill of the class
\* bucket takes it from USED to RUN (heap_discard_run, heap_run_create).
C27_chunk_types ==
    \A H \in {Heap} :
        /\ \A units \in 1..MaxHugeUnits :
               \A r \in {heap_get_bestfit_block(H, units)} :
                   /\ Allowed(H, r.S)
                   /\ r.ret = 0 => Allowed(r.S, palloc_publish(r.S, r.m))
        /\ \A id \in RunClasses, units \in 1..RUN_NALLOCS :
               \A a \in {heap_get_bestfit_block_class(H, id, units)} :
                   /\ Allowed(H, a.S)
                   /\ bucket_alloc_block(H, id, units).ret = 0
                          => a.S.hdr = H.hdr
                   /\ a.ret = 0 => palloc_publish(a.S, a.m).hdr = a.S.hdr
        /\ \A m \in live :
               \A F \in {palloc_free(H, m)} :
                   /\ Allowed(H, F)
                   /\ m.type = "RUN" => F.hdr = H.hdr
        /\ Allowed(H, heap_reclaim_garbage(H).S)
        /\ Allowed(H, heap_boot(H, heap_size).S)

\* The permitted changes happen: a run without an allocated cell is in the
\* recycler and the default bucket is empty with no zone left; the search for
\* a huge block turns the run into a FREE chunk and the publication makes
\* that chunk USED.
C27_witness ==
    /\ default_bucket = {}
    /\ zones_exhausted = nzones
    /\ EmptyRuns(Heap) # {}
    /\ \E r \in {heap_get_bestfit_block(Heap, 1)} :
           /\ r.ret = 0
           /\ hdr[r.m.zone_id][r.m.chunk_id].type = CHUNK_TYPE_RUN
           /\ r.S.hdr[r.m.zone_id][r.m.chunk_id].type = CHUNK_TYPE_FREE
           /\ palloc_publish(r.S, r.m).hdr[r.m.zone_id][r.m.chunk_id].type
                  = CHUNK_TYPE_USED

\* ------------------------------------------------------------------ C28
\* The runs that are attached to a bucket, and the runs a recycler holds.
AttachedRuns ==
    {<<buckets[id].active.zone_id, buckets[id].active.chunk_id>> :
        id \in {i \in RunClasses : buckets[i].active # NoRun}}

RecyclingRuns ==
    {<<e.zone_id, e.chunk_id>> :
        e \in UNION {recyclers[id].runs : id \in RunClasses}}

\* C28: a run is in one state at a time.  A run attached to a bucket is the
\* first chunk of a RUN chunk and is in no recycler, a recycler holds a run
\* once and only while its chunk is a RUN chunk, and a chunk that is not a
\* RUN chunk (a run demoted to a free chunk) is neither attached to a
\* bucket nor held by a recycler.
C28_run_states ==
    /\ AttachedRuns \cap RecyclingRuns = {}
    /\ \A zc \in AttachedRuns \cup RecyclingRuns :
           hdr[zc[1]][zc[2]].type = CHUNK_TYPE_RUN
    /\ \A id \in RunClasses :
           \A e, f \in recyclers[id].runs :
               (e.zone_id = f.zone_id /\ e.chunk_id = f.chunk_id) => e = f

\* =============================================================== SpecOrder
\* The writes of heap_free_chunk_reuse and of heap_zone_init one at a time.
\* A thread works on the default bucket between zoneset_bucket_acquire and
\* zoneset_bucket_release; pc[t] is its position together with the locals
\* m and nm of the function it is in.
Frame(at, m, nm) == [at |-> at, m |-> m, nm |-> nm]

\* heap_free_chunk_reuse, line 331, inserting the block at once
heap_free_chunk_reuse_coalesce_insert(S, m) ==
    The({[S |-> [c.S EXCEPT !.default_bucket = @ \cup {c.m}], m |-> c.m] :
            c \in {heap_coalesce_huge(S, m)}})

\* heap_free_chunk_reuse, line 331
heap_free_chunk_reuse_coalesce(S, m) == heap_coalesce_huge(S, m)

\* heap_free_chunk_reuse, lines 333-334
heap_free_chunk_reuse_hdr(S, m, nm) ==
    IF nm.size_idx # m.size_idx
    THEN huge_prep_hdr(S, nm.zone_id, nm.chunk_id, nm.size_idx,
                       CHUNK_TYPE_FREE)
    ELSE S

\* heap_free_chunk_reuse, line 338
heap_free_chunk_reuse_insert(S, nm) ==
    [S EXCEPT !.default_bucket = @ \cup {nm}]

InitOrder ==
    /\ heap_size = HeapSize
    /\ \E i \in {heap_init(ZeroRegion, HeapSize)} :
           \E b \in {heap_boot(i.S, HeapSize)} : Install0(b.S)
    /\ booted = TRUE
    /\ bucket_owner = [id \in RunClasses |-> 0]
    /\ pc = [t \in Threads |-> Frame("idle", NoBlock, NoBlock)]
    /\ req = [t \in Threads |-> 0]
    /\ live = {}
    /\ last = [op |-> "boot", ret |-> 0]
    /\ bucket_lock = [b \in BucketLocks |-> 0]
    /\ held = [t \in Threads |-> <<>>]
    /\ recycler_ptr = [id \in RunClasses |-> 0]
    /\ recycler_objs = <<>>
    /\ trace = <<>>
    /\ alloc_classes = ModelClasses
    /\ track_stats = FALSE

\* The heap changes to S and thread t goes on to frame f, the locks as
\* they are.
OrStep(t, S, f) ==
    /\ Install(S)
    /\ pc' = [pc EXCEPT ![t] = f]
    /\ UNCHANGED <<heap_size, booted, bucket_owner, req, last>>

OrAcquire(t) ==
    /\ booted /\ pc[t].at = "idle"
    /\ bucket_acquire(t, zoneset_bucket_acquire(DEFAULT_ALLOC_CLASS_ID))
    /\ pc' = [pc EXCEPT ![t].at = "locked"]
    /\ UNCHANGED HeapVars /\ UNCHANGED req

OrRelease(t) ==
    /\ pc[t].at = "locked"
    /\ bucket_release(t, DefaultBucketLock)
    /\ pc' = [pc EXCEPT ![t].at = "idle"]
    /\ UNCHANGED HeapVars /\ UNCHANGED req

\* heap_get_bestfit_block on a bucket that holds a fitting block, and the
\* publication of the block
OrAlloc(t, units) ==
    /\ pc[t].at = "locked"
    /\ \E a \in {bucket_alloc_block(Heap, DEFAULT_ALLOC_CLASS_ID, units)} :
           /\ a.ret = 0
           /\ \E r \in {heap_get_bestfit_block_tail(
                            a.S, DEFAULT_ALLOC_CLASS_ID, a.m, units)} :
                  /\ OrStep(t, palloc_publish(r.S, r.m), pc[t])
                  /\ live' = live \cup {r.m}

\* heap_populate_bucket up to the first write of heap_zone_init
OrZoneChunk(t) ==
    /\ pc[t].at = "locked"
    /\ zones_exhausted < nzones
    /\ \E z \in {zones_exhausted} :
       \E S1 \in {[Heap EXCEPT !.zones_exhausted = @ + 1]} :
       \E n \in {zone_calc_size_idx(z, nzones, sizep)} :
           IF zhdr[z].magic # ZONE_HEADER_MAGIC
           THEN OrStep(t, memblock_huge_init(S1, 0, z, n),
                       Frame("zone_chunk", NoBlock, HugeKey(z, 0, n)))
           ELSE OrStep(t, S1, Frame("zone_hdr", NoBlock, HugeKey(z, 0, n)))
    /\ UNCHANGED live

\* heap_zone_init, lines 215-220: the zone header is written and persisted
OrZoneHeader(t) ==
    /\ pc[t].at = "zone_chunk"
    /\ OrStep(t, [Heap EXCEPT !.zhdr[pc[t].nm.zone_id] =
                     [magic |-> ZONE_HEADER_MAGIC,
                      size_idx |-> pc[t].nm.size_idx]],
              [pc[t] EXCEPT !.at = "zone_hdr"])
    /\ UNCHANGED live

\* heap_populate_bucket, line 487
OrZoneGarbage(t) ==
    /\ pc[t].at = "zone_hdr"
    /\ OrStep(t, heap_reclaim_zone_garbage(Heap, pc[t].nm.zone_id),
              Frame("locked", NoBlock, NoBlock))
    /\ UNCHANGED live

\* The free of a huge block: its header becomes FREE, and
\* heap_free_chunk_reuse takes the free neighbours out of the bucket
OrCoalesce(t, m) ==
    /\ pc[t].at = "locked"
    /\ m \in live /\ m.type = "HUGE"
    /\ \E k \in {HugeKey(m.zone_id, m.chunk_id, m.size_idx)} :
       \E c \in {heap_free_chunk_reuse_coalesce(
                     huge_prep_hdr(Heap, m.zone_id, m.chunk_id, m.size_idx,
                                   CHUNK_TYPE_FREE), k)} :
           OrStep(t, c.S, Frame("coalesced", k, c.m))
    /\ live' = live \ {m}

OrHeader(t) ==
    /\ pc[t].at = "coalesced"
    /\ OrStep(t, heap_free_chunk_reuse_hdr(Heap, pc[t].m, pc[t].nm),
              [pc[t] EXCEPT !.at = "written"])
    /\ UNCHANGED live

OrInsert(t) ==
    /\ pc[t].at = "written"
    /\ OrStep(t, heap_free_chunk_reuse_insert(Heap, pc[t].nm),
              Frame("locked", NoBlock, NoBlock))
    /\ UNCHANGED live

NextOrder ==
    \/ \E t \in Threads : OrAcquire(t)
    \/ \E t \in Threads : OrRelease(t)
    \/ \E t \in Threads, units \in 1..MaxHugeUnits : OrAlloc(t, units)
    \/ \E t \in Threads : OrZoneChunk(t)
    \/ \E t \in Threads : OrZoneHeader(t)
    \/ \E t \in Threads : OrZoneGarbage(t)
    \/ \E t \in Threads, m \in live : OrCoalesce(t, m)
    \/ \E t \in Threads : OrHeader(t)
    \/ \E t \in Threads : OrInsert(t)

SpecOrder == InitOrder /\ [][NextOrder]_vars

\* ------------------------------------------------------------------ C29
\* C29: after every step, each block of the default bucket has a FREE chunk
\* header of the block's size and lies in a zone whose header is valid, so
\* a merged block is in the bucket only after its header is written.  The
\* step of heap_free_chunk_reuse after a coalescing that merged a neighbour
\* writes that header and leaves the bucket as it is; when no neighbour was
\* merged, no chunk header changes between the coalescing and the insert.
\* Whenever the default bucket is released, every zone that
\* heap_populate_bucket has taken has a valid zone header of its size.
C29_header_before_insert ==
    [][ /\ \A k \in default_bucket' :
               /\ hdr'[k.zone_id][k.chunk_id].type = CHUNK_TYPE_FREE
               /\ hdr'[k.zone_id][k.chunk_id].size_idx = k.size_idx
               /\ zhdr'[k.zone_id].magic = ZONE_HEADER_MAGIC
        /\ \A t \in Threads :
               /\ (pc[t].at = "coalesced"
                       /\ pc[t].nm.size_idx # pc[t].m.size_idx)
                  => /\ pc'[t].at = "written"
                     /\ hdr'[pc[t].nm.zone_id][pc[t].nm.chunk_id].type
                            = CHUNK_TYPE_FREE
                     /\ hdr'[pc[t].nm.zone_id][pc[t].nm.chunk_id].size_idx
                            = pc[t].nm.size_idx
                     /\ default_bucket' = default_bucket
                     /\ pc[t].nm \notin default_bucket
               /\ (pc[t].at \in {"coalesced", "written"}
                       /\ pc[t].nm.size_idx = pc[t].m.size_idx)
                  => hdr' = hdr
               /\ (pc[t].at = "written" /\ pc'[t].at = "locked")
                  => /\ pc[t].nm \in default_bucket'
                     /\ hdr' = hdr
        /\ bucket_lock'[DefaultBucketLock] = 0
               => \A z \in 0..(zones_exhausted' - 1) :
                      /\ zhdr'[z].magic = ZONE_HEADER_MAGIC
                      /\ zhdr'[z].size_idx
                             = zone_calc_size_idx(z, nzones', sizep') ]_vars

\* A thread has merged the freed block with a neighbour and written the
\* header of the merged block, which is not in the bucket yet; every zone
\* has been populated.
C29_witness ==
    \E t \in Threads :
        /\ pc[t].at = "written"
        /\ pc[t].nm.size_idx > pc[t].m.size_idx
        /\ hdr[pc[t].nm.zone_id][pc[t].nm.chunk_id].size_idx
               = pc[t].nm.size_idx
        /\ pc[t].nm \notin default_bucket
        /\ zones_exhausted = nzones

\* ------------------------------------------------------------------ C30
\* The blocks of the default bucket of heap S that share a chunk with the
\* chunks c .. c + n - 1 of zone z.
Overlapping(S, z, c, n) ==
    {k \in S.default_bucket :
        /\ k.zone_id = z
        /\ k.chunk_id < c + n
        /\ c < k.chunk_id + k.size_idx}

\* The runs of zone z of heap S with an allocated cell.
UsedRuns(S, z) ==
    {c \in TopLevelOf(S, z, 0, MAX_CHUNK) :
        /\ S.hdr[z][c].type = CHUNK_TYPE_RUN
        /\ S.chunk_run[z][c].bitmap # {}}

\* The runs of zone z of heap S without an allocated cell.
FreeRuns(S, z) ==
    {c \in TopLevelOf(S, z, 0, MAX_CHUNK) :
        /\ S.hdr[z][c].type = CHUNK_TYPE_RUN
        /\ S.chunk_run[z][c].bitmap = {}}

ZoneAsserts(zone_id, max_zone, hsize, first_chunk_id) ==
    /\ max_zone > 0
    /\ zone_id < max_zone - 1
          \/ /\ hsize >= zone_id * ZONE_MAX_SIZE
             /\ hsize - zone_id * ZONE_MAX_SIZE
                    >= ZONE_META_SIZE + HEAP_HDR_SIZE
    /\ zone_calc_size_idx(zone_id, max_zone, hsize) > first_chunk_id

\* What a build does when heap_zone_init is reached with a failing
\* assertion or with more chunks than the zone has chunk headers: the
\* debug build aborts, the release build writes outside the headers.
ZoneFaults == {"abort", "overrun"}

\* The zones heap_zone_update_if_needed passes to heap_zone_init when the
\* region S is booted on a mapping of hsize bytes
UpdatedZones(S, hsize) ==
    {i \in ZoneIds :
        /\ i < heap_max_zone(hsize)
        /\ S.zhdr[i].magic = ZONE_HEADER_MAGIC
        /\ zone_calc_size_idx(i, heap_max_zone(hsize), S.sizep)
               # S.zhdr[i].size_idx}

\* The assertions hold in every heap_zone_init call of a heap_boot and no
\* zone gets more chunks than it has chunk headers
BootAsserts(S, hsize) ==
    \A i \in UpdatedZones(S, hsize) :
        /\ ZoneAsserts(i, heap_max_zone(hsize), S.sizep, S.zhdr[i].size_idx)
        /\ zone_calc_size_idx(i, heap_max_zone(hsize), S.sizep) <= MAX_CHUNK

\* the region with the size field as heap_boot fixes it (lines 990-991)
SizeFixed(S, hsize) ==
    IF S.sizep = 0 THEN [S EXCEPT !.sizep = hsize] ELSE S

\* heap_boot of the closed region on a mapping of hsize bytes
GrBoot(hsize, fail) ==
    /\ fail = "none" /\ hsize >= SizeFixed(Heap, hsize).sizep
           => BootAsserts(SizeFixed(Heap, hsize), hsize)
    /\ HeapBootAt(hsize, fail)

\* heap_boot reaching heap_zone_init with a failing assertion
GrBootFault(hsize, f) ==
    /\ ~booted
    /\ hsize >= SizeFixed(Heap, hsize).sizep
    /\ ~BootAsserts(SizeFixed(Heap, hsize), hsize)
    /\ sizep' = SizeFixed(Heap, hsize).sizep
    /\ heap_size' = hsize
    /\ last' = [op |-> f, ret |-> 0, in |-> "heap_boot"]
    /\ UNCHANGED <<header, zhdr, hdr, chunk_run, nzones, booted,
                   zones_exhausted, default_bucket, buckets, bucket_owner,
                   recyclers, heap_run_active, pc, req, live, track_stats,
                   alloc_classes, bucket_lock, held, recycler_ptr,
                   recycler_objs, unseen, trace>>

\* heap_init of the closed region for a mapping of hsize bytes
GrInit(hsize) ==
    /\ ~booted
    /\ \E H \in {Heap} : \E r \in {heap_init(H, hsize)} :
           /\ Install(r.S)
           /\ last' = [op |-> "init", ret |-> r.ret]
           /\ heap_size' = IF r.ret = 0 THEN hsize ELSE heap_size
           /\ live' = IF r.ret = 0 THEN {} ELSE live
    /\ UNCHANGED <<booted, bucket_owner, pc, req>>

\* heap_cleanup: the runtime state is dropped, the region stays
GrCleanup ==
    /\ booted
    /\ booted' = FALSE
    /\ last' = [op |-> "cleanup", ret |-> 0]
    /\ UNCHANGED <<heap_size, sizep, header, zhdr, hdr, chunk_run, nzones,
                   zones_exhausted, default_bucket, buckets, bucket_owner,
                   recyclers, heap_run_active, pc, req, live, track_stats,
                   alloc_classes, bucket_lock, held, recycler_ptr,
                   recycler_objs, unseen, trace>>

\* heap_populate_bucket of the next zone, as the refill of a class bucket
\* calls it (lines 706-710)
GrPopulate ==
    /\ booted /\ zones_exhausted < nzones
    /\ \/ zhdr[zones_exhausted].magic = ZONE_HEADER_MAGIC
       \/ /\ ZoneAsserts(zones_exhausted, nzones, sizep, 0)
          /\ zone_calc_size_idx(zones_exhausted, nzones, sizep) <= MAX_CHUNK
    /\ \E H \in {Heap} : \E p \in {heap_populate_bucket(H)} : Install(p.S)
    /\ last' = [op |-> "populate", ret |-> 0]
    /\ UNCHANGED <<heap_size, booted, bucket_owner, pc, req, live>>

\* heap_populate_bucket reaching heap_zone_init with a zone size for which
\* an assertion fails or that exceeds MAX_CHUNK
GrFault(f) ==
    /\ booted /\ zones_exhausted < nzones
    /\ zhdr[zones_exhausted].magic # ZONE_HEADER_MAGIC
    /\ ~ZoneAsserts(zones_exhausted, nzones, sizep, 0)
          \/ zone_calc_size_idx(zones_exhausted, nzones, sizep) > MAX_CHUNK
    /\ booted' = FALSE
    /\ last' = [op |-> f, ret |-> 0, in |-> "heap_populate_bucket"]
    /\ UNCHANGED <<heap_size, sizep, header, zhdr, hdr, chunk_run, nzones,
                   zones_exhausted, default_bucket, buckets, bucket_owner,
                   recyclers, heap_run_active, pc, req, live, track_stats,
                   alloc_classes, bucket_lock, held, recycler_ptr,
                   recycler_objs, unseen, trace>>

\* heap_get_bestfit_block on a default bucket that holds a fitting block,
\* and the publication of the block
GrAlloc(units) ==
    /\ booted
    /\ \E a \in {bucket_alloc_block(Heap, DEFAULT_ALLOC_CLASS_ID, units)} :
           /\ a.ret = 0
           /\ \E r \in {heap_get_bestfit_block_tail(
                            a.S, DEFAULT_ALLOC_CLASS_ID, a.m, units)} :
                  /\ Install(palloc_publish(r.S, r.m))
                  /\ live' = live \cup {r.m}
    /\ last' = [op |-> "alloc", ret |-> 0]
    /\ UNCHANGED <<heap_size, booted, bucket_owner, pc, req>>

NextGrow ==
    \/ \E hsize \in BootSizes, fail \in BootFailures : GrBoot(hsize, fail)
    \/ \E hsize \in BootSizes, f \in ZoneFaults : GrBootFault(hsize, f)
    \/ \E hsize \in BootSizes : GrInit(hsize)
    \/ GrCleanup
    \/ GrPopulate
    \/ \E f \in ZoneFaults : GrFault(f)
    \/ \E units \in 1..MaxHugeUnits : GrAlloc(units)

SpecGrow == InitBoot /\ [][NextGrow]_vars

\* ------------------------------------------------------------------ C31
\* C31: a heap_boot that returns 0 leaves every zone below nzones that is
\* initialised and stores a size_idx below the one zone_calc_size_idx
\* yields with that size in its zone header, with one FREE chunk from the
\* old size_idx to the new one and with every chunk header below the old
\* size_idx as it was; the zone header and the chunk headers of every
\* other zone are as they were.
C31_zone_update ==
    [][(last'.op = "boot" /\ last'.ret = 0 /\ ~booted) =>
           \A z \in ZoneIds :
               \A n \in {zone_calc_size_idx(z, nzones', sizep')} :
                   IF /\ z < nzones'
                      /\ zhdr[z].magic = ZONE_HEADER_MAGIC
                      /\ zhdr[z].size_idx < n
                   THEN /\ zhdr'[z] = [magic |-> ZONE_HEADER_MAGIC,
                                       size_idx |-> n]
                        /\ hdr'[z][zhdr[z].size_idx]
                               = [type |-> CHUNK_TYPE_FREE, flags |-> {},
                                  size_idx |-> n - zhdr[z].size_idx]
                        /\ \A c \in ChunkIds :
                               c < zhdr[z].size_idx
                               => hdr'[z][c] = hdr[z][c]
                   ELSE (z >= nzones' \/ zhdr[z].magic # ZONE_HEADER_MAGIC
                             \/ zhdr[z].size_idx = n)
                        => /\ zhdr'[z] = zhdr[z]
                           /\ hdr'[z] = hdr[z]]_vars

\* heap_boot has just returned 0 on a mapping with two zones over a region
\* whose stored size gives one zone of one chunk: the first zone now has
\* MAX_CHUNK chunks, a USED chunk of the earlier session and a FREE chunk
\* behind it.
C31_witness ==
    /\ last = [op |-> "boot", ret |-> 0] /\ booted
    /\ nzones = 2
    /\ zone_calc_size_idx(0, 1, sizep) = 1
    /\ zhdr[0] = [magic |-> ZONE_HEADER_MAGIC, size_idx |-> MAX_CHUNK]
    /\ hdr[0][0].type = CHUNK_TYPE_USED /\ hdr[0][0].size_idx = 1
    /\ hdr[0][1].type = CHUNK_TYPE_FREE /\ hdr[0][1].size_idx = 1

\* ------------------------------------------------------------------ C39
\* C39: after every heap_boot that returns 0, for every zone id below
\* nzones the assertions of zone_calc_size_idx and of heap_zone_init hold
\* for the size field of the region, and the zone size computed from it
\* lies between 1 and MAX_CHUNK.
C39_zone_sizes ==
    (booted /\ last = [op |-> "boot", ret |-> 0])
        => \A z \in 0..(nzones - 1) :
               /\ ZoneAsserts(z, nzones, sizep, 0)
               /\ zone_calc_size_idx(z, nzones, sizep) \in 1..MAX_CHUNK

\* ------------------------------------------------------------------ C34
\* C34: right after a heap_init that returned 0 every zone header of the
\* heap is zero and heap_check of the region returns 0; the magic of a
\* zone changes only when heap_init clears it or when the
\* heap_populate_bucket call that consumes the zone, the one that moves
\* zones_exhausted from the zone's id to the next, sets it: heap_boot
\* changes no magic and a zone at or above zones_exhausted keeps the magic
\* it had at boot.
C34_zone_magic ==
    /\ [](last = [op |-> "init", ret |-> 0]
             => /\ \A z \in ZoneIds :
                       z < heap_max_zone(heap_size) => zhdr[z] = ZeroZoneHdr
                /\ \A H \in {Heap} : heap_check(H, heap_size) = 0)
    /\ [][\A z \in ZoneIds :
              zhdr'[z].magic # zhdr[z].magic
              => \/ /\ last' = [op |-> "init", ret |-> 0]
                    /\ zhdr'[z].magic = 0
                 \/ /\ booted /\ booted'
                    /\ last'.op = "populate"
                    /\ z = zones_exhausted /\ zones_exhausted' = z + 1
                    /\ zhdr[z].magic = 0
                    /\ zhdr'[z].magic = ZONE_HEADER_MAGIC]_vars

\* a booted heap with two zones of which heap_populate_bucket has consumed
\* the first: the first zone carries the magic, the second does not
C34_witness ==
    /\ booted /\ last.op = "populate"
    /\ nzones = 2 /\ zones_exhausted = 1
    /\ zhdr[0].magic = ZONE_HEADER_MAGIC
    /\ zhdr[1].magic = 0

\* =============================================================== SpecZones
\* The calls of heap_populate_bucket of concurrent allocations, one step
\* per lock operation and per access to zones_exhausted.  The outcome of
\* bucket_alloc_block and of the recycler is drawn from BOOLEAN.  pc[t] is
\* the position of thread t, req[t] the local zone_id of its
\* heap_populate_bucket; trace lists the zones in the order in which they
\* were scanned, with the scanning thread.

\* the two callers of heap_populate_bucket: heap_ensure_huge_bucket_filled
\* (lines 570, 589) and heap_ensure_run_bucket_filled (line 709)
PopulateSites == {"huge", "run"}

\* the positions inside heap_populate_bucket, by caller
PopulateAt ==
    [huge |-> [test |-> "huge_test", increment |-> "huge_increment",
               scan |-> "huge_scan", out |-> "huge_out"],
     run  |-> [test |-> "run_test", increment |-> "run_increment",
               scan |-> "run_scan", out |-> "run_out"]]

InPopulate(t) ==
    \E s \in PopulateSites :
        pc[t] \in {PopulateAt[s].test, PopulateAt[s].increment,
                   PopulateAt[s].scan}

\* the caller acquires the bucket of the class of its request
ZnAcquire(t, class_id) ==
    /\ booted /\ pc[t] = "idle"
    /\ bucket_acquire(t, zoneset_bucket_acquire(class_id))
    /\ Goto(t, "bestfit", 0)
    /\ UNCHANGED HeapVars

\* heap_get_bestfit_block, lines 824-833: a hit ends the loop; a miss on
\* the default bucket reaches heap_populate_bucket when
\* heap_reclaim_garbage found nothing; a miss on a class bucket enters
\* heap_ensure_run_bucket_filled
ZnBestfit(t) ==
    /\ pc[t] = "bestfit"
    /\ \E hit \in BOOLEAN, garbage \in BOOLEAN :
          IF hit
          THEN Goto(t, IF Len(held[t]) = 1 THEN "release" ELSE "created", 0)
          ELSE IF CurrentBucket(t) = DefaultBucketLock
          THEN IF garbage THEN Goto(t, "bestfit", 0)
               ELSE Goto(t, PopulateAt.huge.test, 0)
          ELSE Goto(t, "defb", 0)
    /\ UNCHANGED <<bucket_lock, held>>
    /\ UNCHANGED HeapVars

\* heap_ensure_run_bucket_filled, lines 706-707
ZnDefb(t) ==
    /\ pc[t] = "defb"
    /\ bucket_acquire(t, zoneset_bucket_acquire(DEFAULT_ALLOC_CLASS_ID))
    /\ Goto(t, PopulateAt.run.test, 0)
    /\ UNCHANGED HeapVars

\* heap_populate_bucket, lines 474-477: the test and the read of
\* zones_exhausted++
ZnTest(t, s) ==
    /\ pc[t] = PopulateAt[s].test
    /\ IF zones_exhausted = nzones
       THEN Goto(t, PopulateAt[s].out, ENOMEM)
       ELSE Goto(t, PopulateAt[s].increment, zones_exhausted)
    /\ UNCHANGED <<bucket_lock, held>>
    /\ UNCHANGED HeapVars

\* heap_populate_bucket with line 477 reading zone_id = zones_exhausted
\* and leaving the counter as it is
heap_populate_bucket_not_counted(S, zone_id) == S

\* line 477, the write of zones_exhausted++: zone_id is the value read
heap_populate_bucket_counted(S, zone_id) ==
    [S EXCEPT !.zones_exhausted = zone_id + 1]

ZnIncrement(t, s) ==
    /\ pc[t] = PopulateAt[s].increment
    /\ InstallHeap(heap_populate_bucket_counted(Heap, req[t]))
    /\ pc' = [pc EXCEPT ![t] = PopulateAt[s].scan]
    /\ UNCHANGED <<heap_size, booted, bucket_owner, req, live, last, trace>>

\* lines 480-487 for the zone zone_id: heap_zone_init and
\* heap_reclaim_zone_garbage
ZnScan(t, s) ==
    /\ pc[t] = PopulateAt[s].scan
    /\ \E H \in {[Heap EXCEPT !.zones_exhausted = req[t]]} :
       \E p \in {heap_populate_bucket(H)} :
           InstallHeap([p.S EXCEPT !.zones_exhausted = zones_exhausted])
    /\ trace' = Append(trace, [zone |-> req[t], by |-> t])
    /\ Goto(t, PopulateAt[s].out, 0)
    /\ UNCHANGED <<heap_size, booted, bucket_owner, live, last>>

\* heap_ensure_huge_bucket_filled after heap_populate_bucket: 0 goes back
\* to the loop of heap_get_bestfit_block, ENOMEM ends the call
ZnHugeOut(t) ==
    /\ pc[t] = PopulateAt.huge.out
    /\ IF req[t] = 0 THEN Goto(t, "bestfit", 0)
       ELSE Goto(t, IF Len(held[t]) = 1 THEN "release" ELSE "created", 0)
    /\ UNCHANGED <<bucket_lock, held>>
    /\ UNCHANGED HeapVars

\* heap_ensure_run_bucket_filled, lines 710-719: the default bucket is
\* released; the recycler serves the class bucket or the default bucket
\* is acquired again for heap_get_bestfit_block
ZnRunOut(t) ==
    /\ pc[t] = PopulateAt.run.out
    /\ bucket_release(t, zoneset_bucket_acquire(DEFAULT_ALLOC_CLASS_ID))
    /\ \E reused \in BOOLEAN :
           Goto(t, IF reused THEN "bestfit" ELSE "create", 0)
    /\ UNCHANGED HeapVars

\* line 719
ZnCreate(t) ==
    /\ pc[t] = "create"
    /\ bucket_acquire(t, zoneset_bucket_acquire(DEFAULT_ALLOC_CLASS_ID))
    /\ Goto(t, "bestfit", 0)
    /\ UNCHANGED HeapVars

\* lines 722-740: the default bucket is released; the refill returns 0
\* and the loop of heap_get_bestfit_block goes on, or it returns ENOMEM
ZnCreated(t) ==
    /\ pc[t] = "created"
    /\ bucket_release(t, zoneset_bucket_acquire(DEFAULT_ALLOC_CLASS_ID))
    /\ \E enomem \in BOOLEAN :
           Goto(t, IF enomem THEN "release" ELSE "bestfit", 0)
    /\ UNCHANGED HeapVars

\* the caller releases the bucket it acquired
ZnRelease(t) ==
    /\ pc[t] = "release"
    /\ bucket_release(t, held[t][1])
    /\ Goto(t, "idle", 0)
    /\ UNCHANGED HeapVars

NextZones ==
    \/ \E t \in Threads, class_id \in 0..MaxLockClasses : ZnAcquire(t, class_id)
    \/ \E t \in Threads : ZnBestfit(t)
    \/ \E t \in Threads : ZnDefb(t)
    \/ \E t \in Threads, s \in PopulateSites : ZnTest(t, s)
    \/ \E t \in Threads, s \in PopulateSites : ZnIncrement(t, s)
    \/ \E t \in Threads, s \in PopulateSites : ZnScan(t, s)
    \/ \E t \in Threads : ZnHugeOut(t)
    \/ \E t \in Threads : ZnRunOut(t)
    \/ \E t \in Threads : ZnCreate(t)
    \/ \E t \in Threads : ZnCreated(t)
    \/ \E t \in Threads : ZnRelease(t)

SpecZones == Init /\ [][NextZones]_vars

\* ------------------------------------------------------------------ C32
\* C32: in every interleaving a thread inside heap_populate_bucket owns the
\* mutex of the default bucket; the zones are scanned in the order 0, 1,
\* 2, ..., each once; zones_exhausted is the number of zones scanned or
\* being scanned; it never decreases and every heap_populate_bucket that
\* passes the test of line 474 raises it by exactly 1.
C32_populate_order ==
    /\ [](\A t \in Threads :
              InPopulate(t) => bucket_lock[DefaultBucketLock] = t)
    /\ [](/\ \A i \in DOMAIN trace : trace[i].zone = i - 1
          /\ zones_exhausted - Len(trace)
                 = Cardinality({t \in Threads :
                       \E s \in PopulateSites :
                           pc[t] = PopulateAt[s].scan}))
    /\ [][/\ zones_exhausted' >= zones_exhausted
          /\ \A t \in Threads, s \in PopulateSites :
                 (pc[t] = PopulateAt[s].increment /\ pc'[t] # pc[t])
                     => zones_exhausted' = zones_exhausted + 1
          /\ zones_exhausted' # zones_exhausted
                 => \E t \in Threads, s \in PopulateSites :
                        /\ pc[t] = PopulateAt[s].increment
                        /\ pc'[t] = PopulateAt[s].scan]_vars

\* both zones have been consumed, the first by one thread and the second
\* by the other
C32_witness ==
    /\ zones_exhausted = 2 /\ Len(trace) = 2
    /\ trace[1].zone = 0 /\ trace[2].zone = 1
    /\ trace[1].by # trace[2].by

\* ============================================================= SpecRunLock
\* heap_run_into_free_chunk one lock operation and one write at a time, on
\* each of its call paths.  Allocations, frees and restarts are whole
\* calls, taken while no mutex is held; they bring the runs about.  The
\* mutexes of run_locks are kept in bucket_lock beside those of the
\* buckets; pc[t] is the frame of thread t: its position, the call path it
\* is on, the memory block m, the runs still to be handled and the saved
\* pointer `lock`.
MAX_RUN_LOCKS == MAX_CHUNK

RunLock(i) == [bucket |-> "run_locks", id |-> i]
RunLocks == {RunLock(i) : i \in 0..(MAX_RUN_LOCKS - 1)}
NoLock == 0 - 1

\* heap_get_run_lock returning the first mutex for every chunk
heap_get_run_lock_first(chunk_id) == 0

\* heap_get_run_lock, lines 148-152, nlocks being MAX_RUN_LOCKS (line 1017)
heap_get_run_lock(chunk_id) == chunk_id % MAX_RUN_LOCKS

\* m->m_ops->get_lock(m): the run lock of a run, NULL for a huge block
memblock_get_lock(m) ==
    IF m.type = "RUN" THEN heap_get_run_lock(m.chunk_id) ELSE NoLock

RunBlock(zone_id, chunk_id, size_idx) ==
    [zone_id |-> zone_id, chunk_id |-> chunk_id, size_idx |-> size_idx,
     type |-> "RUN"]
HugeBlock(zone_id, chunk_id, size_idx) ==
    [zone_id |-> zone_id, chunk_id |-> chunk_id, size_idx |-> size_idx,
     type |-> "HUGE"]
NoMemblock == [zone_id |-> 0 - 1, chunk_id |-> 0 - 1, size_idx |-> 0,
               type |-> "NONE"]

RunFrame(at, site, m, run, rest, lock) ==
    [at |-> at, site |-> site, m |-> m, run |-> run, rest |-> rest,
     lock |-> lock]
IdleFrame == RunFrame("idle", "none", NoMemblock, NoMemblock, {}, NoLock)
LockedFrame == [IdleFrame EXCEPT !.at = "locked"]

\* the positions between util_mutex_lock and util_mutex_unlock
InsideRunLock == {"init", "reuse", "unlock"}
InRunIntoFreeChunk == {"lock"} \cup InsideRunLock

InitRunLock ==
    /\ heap_size = HeapSize
    /\ \E i \in {heap_init(ZeroRegion, HeapSize)} :
           \E b \in {heap_boot(i.S, HeapSize)} : Install0(b.S)
    /\ booted = TRUE
    /\ bucket_owner = [id \in RunClasses |-> 0]
    /\ pc = [t \in Threads |-> IdleFrame]
    /\ req = [t \in Threads |-> 0]
    /\ live = {}
    /\ last = [op |-> "boot", ret |-> 0]
    /\ bucket_lock = [b \in BucketLocks \cup RunLocks |-> 0]
    /\ held = [t \in Threads |-> <<>>]
    /\ recycler_ptr = [id \in RunClasses |-> 0]
    /\ recycler_objs = <<>>
    /\ trace = <<>>
    /\ alloc_classes = ModelClasses
    /\ track_stats = FALSE

\* no call is under way
Quiet ==
    /\ Usable
    /\ \A t \in Threads : pc[t] = IdleFrame
    /\ \A b \in DOMAIN bucket_lock : bucket_lock[b] = 0

\* The heap changes to S and thread t goes on to frame f, the locks as
\* they are.
RlStep(t, S, f) ==
    /\ Install(S)
    /\ pc' = [pc EXCEPT ![t] = f]
    /\ UNCHANGED <<heap_size, booted, bucket_owner, req, last, live>>

\* thread t takes or gives back mutex operations given by L, the heap as
\* it is
RlMutex(t, f) ==
    /\ pc' = [pc EXCEPT ![t] = f]
    /\ UNCHANGED HeapVars /\ UNCHANGED req

\* a whole allocation from the run class
RlAlloc(id, units) ==
    /\ Quiet
    /\ \E H \in {Heap} :
       \E r \in {heap_get_bestfit_block_class(H, id, units)} :
           /\ r.ret = 0
           /\ Install(palloc_publish(r.S, r.m))
           /\ live' = live \cup {r.m}
    /\ UNCHANGED <<heap_size, booted, bucket_owner, pc, req, last>>

\* a whole free
RlFree(m) ==
    /\ Quiet /\ m \in live
    /\ \A id \in RunClasses : recyclers[id].pending < MaxPending
    /\ \E H \in {Heap} : \E F \in {palloc_free(H, m)} : Install(F)
    /\ live' = live \ {m}
    /\ UNCHANGED <<heap_size, booted, bucket_owner, pc, req, last>>

\* heap_cleanup and heap_boot of the same region
RlRestart ==
    /\ Quiet
    /\ \E H \in {Heap} : \E r \in {heap_boot(H, heap_size)} : Install(r.S)
    /\ UNCHANGED <<heap_size, booted, bucket_owner, pc, req, last, live>>

\* the caller acquires the bucket of a class
RlAcquire(t, class_id) ==
    /\ Usable /\ pc[t].at = "idle"
    /\ bucket_acquire(t, zoneset_bucket_acquire(class_id))
    /\ RlMutex(t, LockedFrame)

\* the caller releases it
RlRelease(t) ==
    /\ pc[t].at = "locked"
    /\ bucket_release(t, held[t][1])
    /\ RlMutex(t, IdleFrame)

\* heap_detach_and_try_discard_run on the class bucket the thread holds,
\* up to the test of heap_discard_run, line 604
RlDetach(t) ==
    /\ pc[t].at = "locked" /\ CurrentBucket(t).bucket = "buckets"
    /\ \E id \in {CurrentBucket(t).id} :
       \E act \in {buckets[id].active} :
           /\ act # NoRun
           /\ \E k \in {HugeKey(act.zone_id, act.chunk_id,
                                hdr[act.zone_id][act.chunk_id].size_idx)} :
              \E r \in {heap_reclaim_run(bucket_detach_run(Heap, id), k,
                                         FALSE)} :
                  RlStep(t, r.S,
                         IF r.ret # 0
                         THEN [LockedFrame EXCEPT
                                  !.at = "discard",
                                  !.m = RunBlock(k.zone_id, k.chunk_id,
                                                 k.size_idx)]
                         ELSE LockedFrame)

\* heap_discard_run, line 606
RlDiscard(t) ==
    /\ pc[t].at = "discard"
    /\ bucket_acquire(t, zoneset_bucket_acquire(DEFAULT_ALLOC_CLASS_ID))
    /\ RlMutex(t, [pc[t] EXCEPT !.at = "lock", !.site = "discard"])

\* heap_recycle_unused up to line 520: recycler_recalc for the class
\* bucket's recycler with defb = NULL (from heap_reuse_from_recycler), or
\* for a recycler of heap_reclaim_garbage with defb the default bucket
\* the thread holds
RlRecalc(t, id, force) ==
    /\ pc[t].at = "locked"
    /\ recyclers[id].exists
    /\ \/ CurrentBucket(t) = ClassBucketLock(id)
       \/ CurrentBucket(t) = DefaultBucketLock /\ force
    /\ \E r \in {recycler_recalc(Heap, id, force)} :
           RlStep(t, r.S,
                  IF r.runs = {} THEN LockedFrame
                  ELSE [LockedFrame EXCEPT
                           !.at = "recycle",
                           !.site = IF CurrentBucket(t) = DefaultBucketLock
                                    THEN "garbage" ELSE "recycle",
                           !.rest = r.runs])

\* heap_recycle_unused, line 520
RlRecycle(t) ==
    /\ pc[t].at = "recycle"
    /\ IF heap_recycle_unused_nb(IF pc[t].site = "garbage"
                                 THEN CurrentBucket(t) ELSE NoBucket)
       THEN bucket_acquire(t, zoneset_bucket_acquire(DEFAULT_ALLOC_CLASS_ID))
       ELSE UNCHANGED <<bucket_lock, held>>
    /\ RlMutex(t, [pc[t] EXCEPT !.at = "each"])

\* heap_recycle_unused, lines 525-530: the next empty run, or the end of
\* the loop and the release of nb
RlEach(t) ==
    /\ pc[t].at = "each"
    /\ IF pc[t].rest = {}
       THEN /\ IF pc[t].site = "recycle"
               THEN bucket_release(
                        t, zoneset_bucket_acquire(DEFAULT_ALLOC_CLASS_ID))
               ELSE UNCHANGED <<bucket_lock, held>>
            /\ RlMutex(t, LockedFrame)
       ELSE /\ \E nm \in {CHOOSE r \in pc[t].rest :
                             \A o \in pc[t].rest :
                                 r.zone_id * MAX_CHUNK + r.chunk_id
                                     <= o.zone_id * MAX_CHUNK + o.chunk_id} :
                RlMutex(t, [pc[t] EXCEPT
                               !.at = "lock",
                               !.m = RunBlock(nm.zone_id, nm.chunk_id,
                                        hdr[nm.zone_id][nm.chunk_id].size_idx),
                               !.rest = @ \ {nm}])
            /\ UNCHANGED <<bucket_lock, held>>

\* heap_populate_bucket with the default bucket held, up to the loop of
\* heap_reclaim_zone_garbage; m.chunk_id is the loop index i
RlPopulate(t) ==
    /\ pc[t].at = "locked" /\ CurrentBucket(t) = DefaultBucketLock
    /\ zones_exhausted < nzones
    /\ \E z \in {zones_exhausted} :
       \E S1 \in {[Heap EXCEPT !.zones_exhausted = @ + 1]} :
           RlStep(t, IF zhdr[z].magic # ZONE_HEADER_MAGIC
                     THEN heap_zone_init(S1, z, 0) ELSE S1,
                  [LockedFrame EXCEPT !.at = "zone", !.site = "zone",
                                      !.m = HugeBlock(z, 0, 0)])

\* one turn of the loop of heap_reclaim_zone_garbage, lines 433-462
RlZone(t) ==
    /\ pc[t].at = "zone"
    /\ \E z \in {pc[t].m.zone_id}, i \in {pc[t].m.chunk_id} :
       IF ~(i < zhdr[z].size_idx)
       THEN RlStep(t, Heap, LockedFrame)
       ELSE \E h \in {hdr[z][i]} :
            \E m \in {HugeKey(z, i, h.size_idx)} :
            CASE h.type = CHUNK_TYPE_RUN ->
                   \E r \in {heap_reclaim_run(Heap, m, TRUE)} :
                       RlStep(t, r.S,
                              IF r.ret # 0
                              THEN [pc[t] EXCEPT
                                       !.at = "lock",
                                       !.m = RunBlock(z, i, h.size_idx)]
                              ELSE [pc[t] EXCEPT
                                       !.m.chunk_id = i + h.size_idx])
              [] h.type = CHUNK_TYPE_FREE ->
                   \E f \in {heap_free_chunk_reuse(Heap, m)} :
                       RlStep(t, f.S,
                              [pc[t] EXCEPT
                                  !.m.chunk_id = f.m.chunk_id + f.m.size_idx])
              [] OTHER ->
                   RlStep(t, Heap,
                          [pc[t] EXCEPT !.m.chunk_id = i + h.size_idx])

\* heap_run_into_free_chunk, lines 350-366: the size is read from the
\* chunk header, the lock of the block is taken
RlLock(t) ==
    /\ pc[t].at = "lock"
    /\ \E lock \in {memblock_get_lock(pc[t].m)} :
           /\ lock # NoLock
           /\ bucket_acquire(t, RunLock(lock))
           /\ RlMutex(t, [pc[t] EXCEPT !.at = "init", !.run = pc[t].m,
                                       !.lock = lock])

\* line 370: the chunk header becomes FREE, m a huge block
RlInit(t) ==
    /\ pc[t].at = "init"
    /\ \E m \in {pc[t].m} :
           RlStep(t, memblock_huge_init(Heap, m.chunk_id, m.zone_id,
                                        m.size_idx),
                  [pc[t] EXCEPT !.at = "reuse",
                                !.m = HugeBlock(m.zone_id, m.chunk_id,
                                                m.size_idx)])

\* line 372: heap_free_chunk_reuse
RlReuse(t) ==
    /\ pc[t].at = "reuse"
    /\ \E m \in {pc[t].m} :
       \E f \in {heap_free_chunk_reuse(
                     Heap, HugeKey(m.zone_id, m.chunk_id, m.size_idx))} :
           RlStep(t, f.S,
                  [pc[t] EXCEPT !.at = "unlock",
                                !.m = HugeBlock(f.m.zone_id, f.m.chunk_id,
                                                f.m.size_idx)])

\* line 374: the saved lock is released; the call path goes on
RlUnlock(t) ==
    /\ pc[t].at = "unlock"
    /\ bucket_release(t, RunLock(pc[t].lock))
    /\ RlMutex(t, CASE pc[t].site = "discard" ->
                         [pc[t] EXCEPT !.at = "discarded", !.lock = NoLock]
                    [] pc[t].site = "zone" ->
                         [pc[t] EXCEPT
                             !.at = "zone", !.lock = NoLock,
                             !.run = NoMemblock,
                             !.m.chunk_id = pc[t].m.chunk_id
                                                + pc[t].m.size_idx]
                    [] OTHER ->
                         [pc[t] EXCEPT !.at = "each", !.lock = NoLock,
                                       !.run = NoMemblock,
                                       !.m = NoMemblock])

\* heap_discard_run, line 610
RlDiscarded(t) ==
    /\ pc[t].at = "discarded"
    /\ bucket_release(t, zoneset_bucket_acquire(DEFAULT_ALLOC_CLASS_ID))
    /\ RlMutex(t, LockedFrame)

NextRunLock ==
    \/ \E id \in RunClasses, units \in 1..RUN_NALLOCS : RlAlloc(id, units)
    \/ \E m \in live : RlFree(m)
    \/ RlRestart
    \/ \E t \in Threads, class_id \in {DEFAULT_ALLOC_CLASS_ID} \cup RunClasses :
           RlAcquire(t, class_id)
    \/ \E t \in Threads : RlRelease(t)
    \/ \E t \in Threads : RlDetach(t)
    \/ \E t \in Threads : RlDiscard(t)
    \/ \E t \in Threads, id \in RunClasses, force \in BOOLEAN :
           RlRecalc(t, id, force)
    \/ \E t \in Threads : RlRecycle(t)
    \/ \E t \in Threads : RlEach(t)
    \/ \E t \in Threads : RlPopulate(t)
    \/ \E t \in Threads : RlZone(t)
    \/ \E t \in Threads : RlLock(t)
    \/ \E t \in Threads : RlInit(t)
    \/ \E t \in Threads : RlReuse(t)
    \/ \E t \in Threads : RlUnlock(t)
    \/ \E t \in Threads : RlDiscarded(t)

SpecRunLock == InitRunLock /\ [][NextRunLock]_vars

\* ------------------------------------------------------------------ C33
\* C33: a thread between util_mutex_lock and util_mutex_unlock of
\* heap_run_into_free_chunk owns run_locks[chunk_id % nlocks] of the run it
\* was called for, and that is the lock it saved: the chunk header is
\* still RUN before memblock_huge_init and no longer RUN after it, the
\* block is a huge block from then on, and after heap_free_chunk_reuse a
\* block of the default bucket covers the chunk.  Outside of these
\* positions the thread owns no run lock, so the lock released is the one
\* acquired.  On every call path a thread inside heap_run_into_free_chunk
\* owns the mutex of the default bucket.
C33_run_lock ==
    \A t \in Threads :
        /\ pc[t].at \in InsideRunLock =>
               /\ pc[t].lock = pc[t].run.chunk_id % MAX_RUN_LOCKS
               /\ bucket_lock[RunLock(pc[t].run.chunk_id % MAX_RUN_LOCKS)] = t
               /\ pc[t].run.type = "RUN"
               /\ \A z \in {pc[t].run.zone_id}, c \in {pc[t].run.chunk_id} :
                      /\ pc[t].at = "init" =>
                             /\ hdr[z][c].type = CHUNK_TYPE_RUN
                             /\ pc[t].m = pc[t].run
                      /\ pc[t].at # "init" =>
                             /\ hdr[z][c].type # CHUNK_TYPE_RUN
                             /\ pc[t].m.type = "HUGE"
                      /\ pc[t].at = "unlock" =>
                             \E b \in default_bucket :
                                 /\ b.zone_id = z
                                 /\ b.chunk_id <= c
                                 /\ c < b.chunk_id + b.size_idx
        /\ pc[t].at \notin InsideRunLock =>
               \A l \in RunLocks : bucket_lock[l] # t
        /\ pc[t].at \in InRunIntoFreeChunk =>
               bucket_lock[DefaultBucketLock] = t

\* a thread is about to unlock the run lock of chunk 1 after its run, met
\* during the scan of a zone, was merged with the free chunk before it:
\* the block it holds now is a huge block that starts at chunk 0
C33_witness ==
    \E t \in Threads :
        /\ pc[t].at = "unlock" /\ pc[t].site = "zone"
        /\ pc[t].run.chunk_id = 1 /\ pc[t].lock = 1
        /\ pc[t].m = HugeBlock(pc[t].run.zone_id, 0, 2)
        /\ bucket_lock[RunLock(1)] = t
        /\ bucket_lock[DefaultBucketLock] = t

\* ============================================================== SpecRetry
\* The loop of heap_get_bestfit_block, one step per bucket_alloc_block and
\* per refill, for one call at a time; frees happen between calls.  oom
\* says that recycler_new returns NULL when heap_get_recycler has to
\* create the recycler.  The thread that runs the loop keeps
\* running: its steps are weakly fair.

\* heap_ensure_run_bucket_filled, lines 689-742, with the OOM of
\* heap_get_recycler: the bucket of a class without recycler has no active
\* run, heap_reuse_from_recycler returns 0 at line 656 and the refill
\* returns 0 through `out`
heap_ensure_run_bucket_filled_oom(S, id, units, oom) ==
    IF oom /\ ~S.recyclers[id].exists /\ S.buckets[id].active = NoRun
    THEN [S |-> S, ret |-> 0]
    ELSE heap_ensure_run_bucket_filled(S, id, units)

\* a call of heap_get_bestfit_block on the default bucket
RtCallHuge(t, units) ==
    /\ Caller(t) /\ \A u \in Threads : pc[u] = "idle"
    /\ pc' = [pc EXCEPT ![t] = "retry_huge"]
    /\ req' = [req EXCEPT ![t] = units]
    /\ UNCHANGED <<bucket_lock, held>>
    /\ UNCHANGED HeapVars

\* a call of heap_get_bestfit_block on the bucket of a run class
RtCallRun(t, id, units) ==
    /\ Caller(t) /\ \A u \in Threads : pc[u] = "idle"
    /\ bucket_owner[id] = 0
    /\ pc' = [pc EXCEPT ![t] = "retry_run"]
    /\ req' = [req EXCEPT ![t] = units]
    /\ bucket_owner' = [bucket_owner EXCEPT ![id] = t]
    /\ UNCHANGED <<heap_size, sizep, header, zhdr, hdr, chunk_run, booted,
                   nzones, zones_exhausted, default_bucket, buckets,
                   recyclers, heap_run_active, live, last, track_stats,
                   alloc_classes, bucket_lock, held, recycler_ptr,
                   recycler_objs, unseen, trace>>

\* the class whose bucket thread t works on
RetryClass(t) ==
    IF pc[t] \in {"retry_huge", "refill_huge"} THEN DEFAULT_ALLOC_CLASS_ID
    ELSE CHOOSE id \in RunClasses : bucket_owner[id] = t

\* line 824: bucket_alloc_block; a hit leaves the loop, lines 834-843
RtTry(t) ==
    /\ Usable /\ pc[t] \in {"retry_huge", "retry_run"}
    /\ \E id \in {RetryClass(t)} :
       \E a \in {bucket_alloc_block(Heap, id, req[t])} :
       IF a.ret = 0
       THEN \E r \in {heap_get_bestfit_block_tail(a.S, id, a.m, req[t])} :
            /\ Install(palloc_publish(r.S, r.m))
            /\ live' = live \cup {r.m}
            /\ bucket_owner' = [i \in RunClasses |-> 0]
            /\ pc' = [pc EXCEPT ![t] = "idle"]
            /\ req' = [req EXCEPT ![t] = 0]
            /\ last' = [op |-> "alloc", ret |-> 0]
       ELSE /\ Install(a.S)
            /\ pc' = [pc EXCEPT ![t] = IF id = DEFAULT_ALLOC_CLASS_ID
                                       THEN "refill_huge" ELSE "refill_run"]
            /\ UNCHANGED <<bucket_owner, req, live, last>>
    /\ UNCHANGED <<heap_size, booted>>

\* what follows a refill: 0 goes back to bucket_alloc_block, anything else
\* ends the call with ENOMEM
RtRefilled(t, r) ==
    /\ Install(r.S)
    /\ IF r.ret = 0
       THEN /\ pc' = [pc EXCEPT ![t] = IF pc[t] = "refill_huge"
                                       THEN "retry_huge" ELSE "retry_run"]
            /\ UNCHANGED <<bucket_owner, req, last>>
       ELSE /\ pc' = [pc EXCEPT ![t] = "idle"]
            /\ req' = [req EXCEPT ![t] = 0]
            /\ bucket_owner' = [i \in RunClasses |-> 0]
            /\ last' = [op |-> "alloc", ret |-> ENOMEM]
    /\ UNCHANGED <<heap_size, booted, live>>

\* lines 826-828
RtRefillHuge(t) ==
    /\ Usable /\ pc[t] = "refill_huge"
    /\ \E r \in {heap_ensure_huge_bucket_filled(Heap)} : RtRefilled(t, r)

\* lines 830-831
RtRefillRun(t, oom) ==
    /\ Usable /\ pc[t] = "refill_run"
    /\ \E r \in {heap_ensure_run_bucket_filled_oom(
                     Heap, RetryClass(t), req[t], oom)} : RtRefilled(t, r)

\* a live block is freed while no call is under way
RtFree(t, m) ==
    /\ Caller(t) /\ m \in live
    /\ \A u \in Threads : pc[u] = "idle"
    /\ \A id \in RunClasses : recyclers[id].pending < MaxPending
    /\ \E H \in {Heap} : \E F \in {palloc_free(H, m)} : Install(F)
    /\ live' = live \ {m}
    /\ UNCHANGED <<heap_size, booted, bucket_owner, pc, req, last>>

NextRetry ==
    \/ \E t \in Threads, units \in 1..MaxHugeUnits : RtCallHuge(t, units)
    \/ \E t \in Threads, id \in RunClasses, units \in 1..RUN_NALLOCS :
           RtCallRun(t, id, units)
    \/ \E t \in Threads : RtTry(t)
    \/ \E t \in Threads : RtRefillHuge(t)
    \/ \E t \in Threads, oom \in BOOLEAN : RtRefillRun(t, oom)
    \/ \E t \in Threads, m \in live : RtFree(t, m)

RetryFairness ==
    \A t \in Threads :
        /\ WF_vars(RtTry(t))
        /\ WF_vars(RtRefillHuge(t))
        /\ WF_vars(\E oom \in BOOLEAN : RtRefillRun(t, oom))

SpecRetry == Init /\ [][NextRetry]_vars /\ RetryFairness

\* ------------------------------------------------------------------ C35
\* C35: with no free during the call and the calling thread running on,
\* every call of heap_get_bestfit_block comes to its end, returning 0 or
\* ENOMEM.
C35_terminates ==
    \A t \in Threads : (pc[t] # "idle") ~> (pc[t] = "idle")

\* ------------------------------------------------------------------ C36
\* the runs of the populated zones of heap S: the top-level chunks of type
\* RUN in the zones below zones_exhausted
PopulatedRuns(S) ==
    {zc \in ZoneIds \X ChunkIds :
        /\ zc[1] < S.zones_exhausted
        /\ zc[2] \in TopLevelOf(S, zc[1], 0, MAX_CHUNK)
        /\ S.hdr[zc[1]][zc[2]].type = CHUNK_TYPE_RUN}

RECURSIVE RunSizes(_, _)
RunSizes(S, R) ==
    IF R = {} THEN 0
    ELSE LET zc == CHOOSE x \in R : TRUE
         IN S.hdr[zc[1]][zc[2]].size_idx + RunSizes(S, R \ {zc})

\* C36: in every state of a booted heap heap_run_active is CHUNKSIZE times
\* the total size_idx of the runs of the populated zones and is not below
\* zero; after the first allocation of a run class on a fresh heap the
\* block is a run block with block_off 0, one run exists and the counter
\* is the size of that run.
C36_run_active ==
    booted =>
        /\ heap_run_active >= 0
        /\ \A H \in {Heap} :
               heap_run_active = CHUNKSIZE * RunSizes(H, PopulatedRuns(H))
        /\ (Len(trace) = 1 /\ trace[1].op = "alloc"
                /\ trace[1].id \in RunClasses)
               => /\ trace[1].ret = 0
                  /\ trace[1].m.type = "RUN"
                  /\ trace[1].m.block_off = 0
                  /\ Cardinality(RunChunks(Heap)) = 1
                  /\ heap_run_active = RUN_SIZE_IDX * CHUNKSIZE


\* =============================================================== SpecCrash
\* The header writes of heap_zone_init, heap_split_block,
\* heap_free_chunk_reuse and heap_run_into_free_chunk one at a time, in the
\* order of the source.  pc[t] is a frame: the writes the function t is in
\* has still to do (ws), the heap as the function leaves it (S), where t
\* goes on afterwards (next), and the locals m, zone_id and i of the
\* caller.  A crash can happen in every state: the runtime state is lost
\* and heap_boot runs on the region as the writes left it.
ChunkWrite(zone_id, chunk_id, h) ==
    [zone |-> zone_id, chunk |-> chunk_id, h |-> h]

ZoneWrite(zone_id, zh) == [zone |-> zone_id, zh |-> zh]

\* one store to the region
write(S, w) ==
    IF "zh" \in DOMAIN w THEN [S EXCEPT !.zhdr[w.zone] = w.zh]
    ELSE [S EXCEPT !.hdr[w.zone][w.chunk] = w.h]

huge_write_footer_writes(zone_id, chunk_id, size_idx) ==
    IF size_idx = 1 THEN <<>>
    ELSE <<ChunkWrite(zone_id, chunk_id + size_idx - 1,
                      [type |-> CHUNK_TYPE_FOOTER, flags |-> {},
                       size_idx |-> size_idx])>>

\* memblock_huge_init: the header, then the footer
memblock_huge_init_writes(chunk_id, zone_id, size_idx) ==
    <<ChunkWrite(zone_id, chunk_id,
                 [type |-> CHUNK_TYPE_FREE, flags |-> {},
                  size_idx |-> size_idx])>>
        \o huge_write_footer_writes(zone_id, chunk_id, size_idx)

\* huge prep_hdr: the header, then the footer
huge_prep_hdr_writes(S, zone_id, chunk_id, size_idx, type) ==
    <<ChunkWrite(zone_id, chunk_id,
                 [type |-> type, flags |-> S.hdr[zone_id][chunk_id].flags,
                  size_idx |-> size_idx])>>
        \o huge_write_footer_writes(zone_id, chunk_id, size_idx)

\* heap_zone_init writing the zone header before the first chunk
heap_zone_init_writes_header_first(S, zone_id, first_chunk_id) ==
    LET size_idx == zone_calc_size_idx(zone_id, S.nzones, S.sizep) IN
    <<ZoneWrite(zone_id, [magic |-> ZONE_HEADER_MAGIC,
                          size_idx |-> size_idx])>>
        \o memblock_huge_init_writes(first_chunk_id, zone_id,
                                     size_idx - first_chunk_id)

\* heap_zone_init, lines 212-220: the chunk, then the whole zone header
heap_zone_init_writes(S, zone_id, first_chunk_id) ==
    LET size_idx == zone_calc_size_idx(zone_id, S.nzones, S.sizep) IN
    memblock_huge_init_writes(first_chunk_id, zone_id,
                              size_idx - first_chunk_id)
        \o <<ZoneWrite(zone_id, [magic |-> ZONE_HEADER_MAGIC,
                                 size_idx |-> size_idx])>>

\* heap_split_block shrinking m before the remainder has its header
heap_split_block_writes_m_first(m, units) ==
    memblock_huge_init_writes(m.chunk_id, m.zone_id, units)
        \o memblock_huge_init_writes(m.chunk_id + units, m.zone_id,
                                     m.size_idx - units)

\* heap_split_block on a huge block, lines 799-805: the remainder, then m
heap_split_block_writes(m, units) ==
    memblock_huge_init_writes(m.chunk_id + units, m.zone_id,
                              m.size_idx - units)
        \o memblock_huge_init_writes(m.chunk_id, m.zone_id, units)

\* heap_free_chunk_reuse, lines 331-334
heap_free_chunk_reuse_writes(S, m) ==
    LET hdrs(c) ==
            IF c.m.size_idx # m.size_idx
            THEN huge_prep_hdr_writes(c.S, c.m.zone_id, c.m.chunk_id,
                                      c.m.size_idx, CHUNK_TYPE_FREE)
            ELSE <<>>
    IN The({hdrs(c) : c \in {heap_coalesce_huge(S, m)}})

\* heap_run_into_free_chunk, lines 370-372
heap_run_into_free_chunk_writes(S, m) ==
    LET size_idx == S.hdr[m.zone_id][m.chunk_id].size_idx IN
    memblock_huge_init_writes(m.chunk_id, m.zone_id, size_idx)
        \o The({heap_free_chunk_reuse_writes(
                    T, HugeKey(m.zone_id, m.chunk_id, size_idx)) :
                   T \in {memblock_huge_init(S, m.chunk_id, m.zone_id,
                                             size_idx)}})

CrFrame(at, ws, S, next, m, zone_id, i) ==
    [at |-> at, ws |-> ws, S |-> S, next |-> next, m |-> m,
     zone_id |-> zone_id, i |-> i]

CrAt(at) == CrFrame(at, <<>>, ZeroRegion, at, NoBlock, 0, 0)

\* t is in a function that writes ws and leaves the heap as f.S and the
\* block f.m
CrWriting(ws, f, next, zone_id) ==
    CrFrame("writing", ws, f.S, next, f.m, zone_id,
            f.m.chunk_id + f.m.size_idx)

InitCrash ==
    /\ heap_size = HeapSize
    /\ \E i \in {heap_init(ZeroRegion, HeapSize)} :
           \E b \in {heap_boot(i.S, HeapSize)} : Install0(b.S)
    /\ booted = TRUE
    /\ bucket_owner = [id \in RunClasses |-> 0]
    /\ pc = [t \in Threads |-> CrAt("idle")]
    /\ req = [t \in Threads |-> 0]
    /\ live = {}
    /\ last = [op |-> "boot", ret |-> 0]
    /\ bucket_lock = [b \in BucketLocks |-> 0]
    /\ held = [t \in Threads |-> <<>>]
    /\ recycler_ptr = [id \in RunClasses |-> 0]
    /\ recycler_objs = <<>>
    /\ trace = <<>>
    /\ alloc_classes = ModelClasses
    /\ track_stats = FALSE

\* the active run of every class bucket is a run in the region.  A block
\* freed in a zone that heap_populate_bucket has not reached yet can become
\* a run that the later scan of the zone turns into a free chunk while it
\* is attached; what heap.c does with such a run is not defined, and the
\* behaviours are followed up to the first state of this kind, from which
\* only a crash and a new heap_boot go on.
CrUsable ==
    \A id \in RunClasses :
        buckets[id].active # NoRun =>
            hdr[buckets[id].active.zone_id][buckets[id].active.chunk_id].type
                = CHUNK_TYPE_RUN

\* The heap changes to S and thread t goes on to frame f.
CrStep(t, S, f) ==
    /\ CrUsable
    /\ Install(S)
    /\ pc' = [pc EXCEPT ![t] = f]
    /\ UNCHANGED <<heap_size, booted, bucket_owner, req, last>>

CrAcquire(t) ==
    /\ pc[t].at = "idle"
    /\ bucket_acquire(t, zoneset_bucket_acquire(DEFAULT_ALLOC_CLASS_ID))
    /\ pc' = [pc EXCEPT ![t] = CrAt("locked")]
    /\ UNCHANGED HeapVars /\ UNCHANGED req

CrRelease(t) ==
    /\ pc[t].at = "locked"
    /\ bucket_release(t, DefaultBucketLock)
    /\ pc' = [pc EXCEPT ![t] = CrAt("idle")]
    /\ UNCHANGED HeapVars /\ UNCHANGED req

\* the next store of the function t is in
CrWrite(t) ==
    /\ pc[t].at = "writing" /\ pc[t].ws # <<>>
    /\ CrStep(t, write(Heap, Head(pc[t].ws)),
              [pc[t] EXCEPT !.ws = Tail(@)])
    /\ UNCHANGED live

\* the function has written its headers: its runtime state follows
\* (bucket_insert_block, heap_free_chunk_reuse's *m = nm) and it returns
CrReturn(t) ==
    /\ pc[t].at = "writing" /\ pc[t].ws = <<>>
    /\ CrStep(t, [pc[t].S EXCEPT !.hdr = hdr, !.zhdr = zhdr],
              [pc[t] EXCEPT !.at = pc[t].next])
    /\ UNCHANGED live

\* heap_populate_bucket, lines 473-485, up to the writes of heap_zone_init
CrPopulate(t) ==
    /\ pc[t].at = "locked"
    /\ zones_exhausted < nzones
    /\ \E z \in {zones_exhausted} :
       \E S1 \in {[Heap EXCEPT !.zones_exhausted = @ + 1]} :
           IF zhdr[z].magic # ZONE_HEADER_MAGIC
           THEN CrStep(t, S1,
                       CrFrame("writing", heap_zone_init_writes(S1, z, 0),
                               heap_zone_init(S1, z, 0), "scan", NoBlock,
                               z, 0))
           ELSE CrStep(t, S1,
                       CrFrame("scan", <<>>, ZeroRegion, "scan", NoBlock,
                               z, 0))
    /\ UNCHANGED live

\* heap_reclaim_zone_garbage, lines 432-461: one chunk of the zone
CrScan(t) ==
    /\ pc[t].at = "scan"
    /\ \E z \in {pc[t].zone_id}, i \in {pc[t].i} :
           IF ~(i < zhdr[z].size_idx) \/ hdr[z][i].size_idx = 0
           THEN CrStep(t, Heap, CrAt("locked"))
           ELSE \E m \in {HugeKey(z, i, hdr[z][i].size_idx)} :
                \E on \in {[pc[t] EXCEPT !.i = i + m.size_idx]} :
                    CASE hdr[z][i].type = CHUNK_TYPE_RUN ->
                           \E r \in {heap_reclaim_run(Heap, m, TRUE)} :
                               IF r.ret # 0
                               THEN CrStep(t, r.S,
                                        CrWriting(
                                            heap_run_into_free_chunk_writes(
                                                r.S, m),
                                            heap_run_into_free_chunk(r.S, m),
                                            "scan", z))
                               ELSE CrStep(t, r.S, on)
                      [] hdr[z][i].type = CHUNK_TYPE_FREE ->
                           CrStep(t, Heap,
                                  CrWriting(
                                      heap_free_chunk_reuse_writes(Heap, m),
                                      heap_free_chunk_reuse(Heap, m),
                                      "scan", z))
                      [] OTHER -> CrStep(t, Heap, on)
    /\ UNCHANGED live

\* heap_get_bestfit_block on the default bucket, lines 826-836, for a
\* caller (to = "publish") or for heap_ensure_run_bucket_filled, line 722
\* (to = "run"): the block leaves the bucket, heap_split_block starts
CrAlloc(t, units, to) ==
    /\ pc[t].at = "locked"
    /\ to = "run" => /\ units = RUN_SIZE_IDX
                     /\ buckets[RUN_CLASS_ID].active = NoRun
    /\ \E a \in {bucket_alloc_block(Heap, DEFAULT_ALLOC_CLASS_ID, units)} :
           /\ a.ret = 0
           /\ IF units # a.m.size_idx
              THEN CrStep(t, a.S,
                       CrWriting(heap_split_block_writes(a.m, units),
                                 heap_split_block(a.S, DEFAULT_ALLOC_CLASS_ID,
                                                  a.m, units),
                                 to, 0))
              ELSE CrStep(t, a.S,
                          CrFrame(to, <<>>, ZeroRegion, to, a.m, 0, 0))
    /\ UNCHANGED live

\* heap_get_bestfit_block, lines 838-842, and the publication of the block
CrPublish(t) ==
    /\ pc[t].at = "publish"
    /\ \E r \in {heap_get_bestfit_block_tail(Heap, DEFAULT_ALLOC_CLASS_ID,
                                             pc[t].m, pc[t].m.size_idx)} :
           /\ CrStep(t, palloc_publish(r.S, r.m), CrAt("locked"))
           /\ live' = live \cup {r.m}

\* heap_ensure_run_bucket_filled, line 727: heap_run_create
CrRunCreate(t) ==
    /\ pc[t].at = "run"
    /\ CrStep(t, heap_run_create(Heap, RUN_CLASS_ID, pc[t].m), CrAt("locked"))
    /\ UNCHANGED live

\* heap_detach_and_try_discard_run with heap_discard_run, up to the writes
\* of heap_run_into_free_chunk
CrDiscard(t) ==
    /\ pc[t].at = "locked"
    /\ buckets[RUN_CLASS_ID].active # NoRun
    /\ \E act \in {buckets[RUN_CLASS_ID].active} :
       \E k \in {HugeKey(act.zone_id, act.chunk_id,
                         hdr[act.zone_id][act.chunk_id].size_idx)} :
       \E r \in {heap_reclaim_run(bucket_detach_run(Heap, RUN_CLASS_ID), k,
                                  FALSE)} :
           IF r.ret # 0
           THEN CrStep(t, r.S,
                       CrWriting(heap_run_into_free_chunk_writes(r.S, k),
                                 heap_run_into_free_chunk(r.S, k),
                                 "locked", 0))
           ELSE CrStep(t, r.S, CrAt("locked"))
    /\ UNCHANGED live

\* The free of a huge block: its header becomes FREE, heap_free_chunk_reuse
\* starts
CrFree(t, m) ==
    /\ pc[t].at = "locked"
    /\ m \in live /\ m.type = "HUGE"
    /\ \E k \in {HugeKey(m.zone_id, m.chunk_id, m.size_idx)} :
       \E S0 \in {huge_prep_hdr(Heap, m.zone_id, m.chunk_id, m.size_idx,
                                CHUNK_TYPE_FREE)} :
           CrStep(t, S0,
                  CrWriting(heap_free_chunk_reuse_writes(S0, k),
                            heap_free_chunk_reuse(S0, k), "locked", 0))
    /\ live' = live \ {m}

\* The process dies and the pool is opened again: heap_boot on the region
\* as it is, with a new struct heap_rt
CrCrash ==
    /\ \E t \in Threads : pc[t].at # "idle"
    /\ \E b \in {heap_boot(Heap, heap_size)} :
           /\ b.ret = 0
           /\ sizep' = b.S.sizep
           /\ header' = b.S.header
           /\ zhdr' = b.S.zhdr
           /\ hdr' = b.S.hdr
           /\ chunk_run' = b.S.chunk_run
           /\ nzones' = b.S.nzones
           /\ zones_exhausted' = b.S.zones_exhausted
           /\ default_bucket' = b.S.default_bucket
           /\ buckets' = b.S.buckets
           /\ recyclers' = b.S.recyclers
    /\ bucket_lock' = [b \in BucketLocks |-> 0]
    /\ held' = [t \in Threads |-> <<>>]
    /\ pc' = [t \in Threads |-> CrAt("idle")]
    /\ last' = [op |-> "boot", ret |-> 0]
    /\ UNCHANGED <<heap_size, booted, bucket_owner, req, live,
                   heap_run_active, unseen, track_stats, alloc_classes,
                   recycler_ptr, recycler_objs, trace>>

NextCrash ==
    \/ \E t \in Threads : CrAcquire(t)
    \/ \E t \in Threads : CrRelease(t)
    \/ \E t \in Threads : CrWrite(t)
    \/ \E t \in Threads : CrReturn(t)
    \/ \E t \in Threads : CrPopulate(t)
    \/ \E t \in Threads : CrScan(t)
    \/ \E t \in Threads, units \in 1..MaxHugeUnits, to \in {"publish", "run"} :
           CrAlloc(t, units, to)
    \/ \E t \in Threads : CrPublish(t)
    \/ \E t \in Threads : CrRunCreate(t)
    \/ \E t \in Threads : CrDiscard(t)
    \/ \E t \in Threads, m \in live : CrFree(t, m)
    \/ CrCrash

SpecCrash == InitCrash /\ [][NextCrash]_vars

\* ------------------------------------------------------------------ C37
\* C37: in every state between two header writes of heap_zone_init, of
\* heap_split_block on a huge block, of heap_free_chunk_reuse and of
\* heap_run_into_free_chunk (and before the first and after the last of
\* them) the persistent region passes heap_check and heap_boot accepts it;
\* when the last write of such a function is done, the headers are the
\* ones the function as a whole leaves.
C37_crash_consistent ==
    /\ heap_check(Heap, heap_size) = 0
    /\ heap_boot(Heap, heap_size).ret = 0
    /\ \A t \in Threads :
           (pc[t].at = "writing" /\ pc[t].ws = <<>>)
               => (hdr = pc[t].S.hdr /\ zhdr = pc[t].S.zhdr)

\* heap_split_block has written the header of the remainder of a block of
\* two chunks and not yet the header of m
C37_witness ==
    \E t \in Threads :
        /\ pc[t].at = "writing" /\ pc[t].next = "publish"
        /\ Len(pc[t].ws) = 1
        /\ hdr[0][0] = [type |-> CHUNK_TYPE_FREE, flags |-> {}, size_idx |-> 2]
        /\ hdr[0][1] = [type |-> CHUNK_TYPE_FREE, flags |-> {}, size_idx |-> 1]


\* ------------------------------------------------------------------ C38
\* the defb that heap_recycle_unused was called with by thread t: the
\* bucket heap_reclaim_garbage works on, or NULL from
\* heap_reuse_from_recycler
RecycleDefb(t) == IF req[t] = 0 THEN CurrentBucket(t) ELSE NoBucket

\* how often thread t holds the mutex of the default bucket
DefaultHeld(t) ==
    Cardinality({i \in DOMAIN held[t] : held[t][i] = DefaultBucketLock})

\* the positions of heap_discard_run, heap_ensure_run_bucket_filled and
\* heap_recycle_unused right before zoneset_bucket_acquire of the default
\* bucket (lines 606, 706, 719, 520)
AcquiresDefault(t) ==
    \/ pc[t] \in {"discard", "populate", "create"}
    \/ pc[t] = "recycle" /\ heap_recycle_unused_nb(RecycleDefb(t))

\* the positions between such an acquire and its release
InsideDefault(t) ==
    \/ pc[t] \in {"discarded", "populated", "created", "not_created"}
    \/ pc[t] = "recycled" /\ heap_recycle_unused_nb(RecycleDefb(t))

\* C38: a thread that is about to acquire the default bucket in
\* heap_discard_run, heap_ensure_run_bucket_filled or heap_recycle_unused
\* does not hold it; heap_recycle_unused called with a defb is called with
\* the default bucket its caller holds and does not acquire; between an
\* acquire and its release the thread holds the default bucket once; and
\* wherever heap_ensure_run_bucket_filled or heap_discard_run is outside
\* these windows, and after the call has returned (with 0 or ENOMEM), the
\* thread holds the default bucket as often as before the call: not at all
\* in a refill of a run bucket or a discard, never when it is idle.
C38_default_balanced ==
    \A t \in Threads :
        /\ AcquiresDefault(t) => DefaultHeld(t) = 0
        /\ (pc[t] = "recycle" /\ ~heap_recycle_unused_nb(RecycleDefb(t)))
               => (RecycleDefb(t) = DefaultBucketLock /\ DefaultHeld(t) = 1)
        /\ InsideDefault(t) => DefaultHeld(t) = 1
        /\ pc[t] \in {"detach", "reuse"}
               => (DefaultHeld(t) = 0 /\ Len(held[t]) = 1)
        /\ pc[t] = "release" => Len(held[t]) = 1
        /\ pc[t] = "idle" => held[t] = <<>>

\* heap_recycle_unused was called from the third heap_reuse_from_recycler
\* of a refill (after the release of line 731) with defb NULL and has
\* acquired the default bucket on top of the class bucket
C38_witness ==
    \E t \in Threads :
        /\ pc[t] = "recycled" /\ req[t] = 3
        /\ held[t] = <<ClassBucketLock(RUN_CLASS_ID), DefaultBucketLock>>


\* =========================================================== SpecDeadlock
\* The paths of SpecLocks together with the two kinds of mutex that are
\* taken inside them: the run lock of heap_run_into_free_chunk and the
\* mutex of a recycler, locked and unlocked inside each recycler_* call
\* (recycler.c).  heap_memblock_on_free runs with no bucket held.  While
\* a thread is inside one of the two, pc[t] is the position it came from
\* with a suffix.
RecyclerLock(id) == [bucket |-> "recyclers", id |-> id]
RecyclerLocks == {RecyclerLock(id) : id \in 1..MaxLockClasses}

\* the positions in which heap_run_into_free_chunk runs (from
\* heap_discard_run, heap_recycle_unused, heap_reclaim_zone_garbage) and
\* their names while the run lock is held
InRunLock ==
    [discarded |-> "discarded_run_lock", recycled |-> "recycled_run_lock",
     populated |-> "populated_run_lock"]

\* the positions in which a recycler_* function runs: recycler_get and
\* recycler_recalc of heap_reuse_from_recycler (reuse), recycler_put of
\* heap_reclaim_run (discard, populated), recycler_recalc of
\* heap_reclaim_garbage (bestfit on the default bucket),
\* recycler_inc_unaccounted (on_free)
InRecycler ==
    [reuse |-> "reuse_recycler",
     discard |-> "discard_recycler", populated |-> "populated_recycler",
     bestfit |-> "bestfit_recycler", on_free |-> "on_free_recycler"]

InitDeadlock ==
    /\ heap_size = HeapSize
    /\ \E i \in {heap_init(ZeroRegion, HeapSize)} :
           \E b \in {heap_boot(i.S, HeapSize)} : Install0(b.S)
    /\ booted = TRUE
    /\ bucket_owner = [id \in RunClasses |-> 0]
    /\ pc = [t \in Threads |-> "idle"]
    /\ req = [t \in Threads |-> 0]
    /\ live = {}
    /\ last = [op |-> "boot", ret |-> 0]
    /\ bucket_lock = [b \in BucketLocks \cup RunLocks \cup RecyclerLocks |-> 0]
    /\ held = [t \in Threads |-> <<>>]
    /\ recycler_ptr = [id \in RunClasses |-> 0]
    /\ recycler_objs = <<>>
    /\ trace = <<>>
    /\ alloc_classes = ModelClasses
    /\ track_stats = FALSE

\* heap_run_into_free_chunk, line 368: util_mutex_lock of the run lock of
\* the chunk
DlRunLock(t, chunk_id) ==
    /\ pc[t] \in DOMAIN InRunLock
    /\ bucket_acquire(t, RunLock(heap_get_run_lock(chunk_id)))
    /\ pc' = [pc EXCEPT ![t] = InRunLock[pc[t]]]
    /\ UNCHANGED HeapVars /\ UNCHANGED req

\* line 374
DlRunUnlock(t) ==
    /\ \E p \in DOMAIN InRunLock :
           /\ pc[t] = InRunLock[p]
           /\ pc' = [pc EXCEPT ![t] = p]
    /\ bucket_release(t, held[t][Len(held[t])])
    /\ UNCHANGED HeapVars /\ UNCHANGED req

\* a recycler_* call locks the mutex of its recycler
DlRecyclerLock(t, id) ==
    /\ pc[t] \in DOMAIN InRecycler
    /\ pc[t] = "bestfit" => CurrentBucket(t) = DefaultBucketLock
    /\ bucket_acquire(t, RecyclerLock(id))
    /\ pc' = [pc EXCEPT ![t] = InRecycler[pc[t]]]
    /\ UNCHANGED HeapVars /\ UNCHANGED req

\* and unlocks it before it returns
DlRecyclerUnlock(t) ==
    /\ \E p \in DOMAIN InRecycler :
           /\ pc[t] = InRecycler[p]
           /\ pc' = [pc EXCEPT ![t] = p]
    /\ bucket_release(t, held[t][Len(held[t])])
    /\ UNCHANGED HeapVars /\ UNCHANGED req

\* heap_memblock_on_free of a run block, called with no bucket held
DlOnFree(t) ==
    /\ booted /\ pc[t] = "idle"
    /\ Goto(t, "on_free", 0)
    /\ UNCHANGED <<bucket_lock, held>>
    /\ UNCHANGED HeapVars

DlOnFreeDone(t) ==
    /\ pc[t] = "on_free"
    /\ Goto(t, "idle", 0)
    /\ UNCHANGED <<bucket_lock, held>>
    /\ UNCHANGED HeapVars

\* a step of a call that thread t is in
DlInCall(t) ==
    \/ LkBestfit(t)
    \/ LkDetach(t)
    \/ LkDiscard(t)
    \/ LkDiscarded(t)
    \/ LkReuse(t)
    \/ LkRecycle(t)
    \/ LkRecycled(t)
    \/ LkPopulate(t)
    \/ LkPopulated(t)
    \/ LkCreate(t)
    \/ LkCreated(t)
    \/ LkRelease(t)
    \/ \E chunk_id \in ChunkIds : DlRunLock(t, chunk_id)
    \/ DlRunUnlock(t)
    \/ \E id \in 1..MaxLockClasses : DlRecyclerLock(t, id)
    \/ DlRecyclerUnlock(t)
    \/ DlOnFreeDone(t)

NextDeadlock ==
    \/ \E t \in Threads, class_id \in 0..MaxLockClasses : LkAcquire(t, class_id)
    \/ \E t \in Threads : LkBestfit(t)
    \/ \E t \in Threads : LkDetach(t)
    \/ \E t \in Threads : LkExternalDiscard(t)
    \/ \E t \in Threads : LkDiscard(t)
    \/ \E t \in Threads : LkDiscarded(t)
    \/ \E t \in Threads : LkReuse(t)
    \/ \E t \in Threads : LkRecycle(t)
    \/ \E t \in Threads : LkRecycled(t)
    \/ \E t \in Threads : LkPopulate(t)
    \/ \E t \in Threads : LkPopulated(t)
    \/ \E t \in Threads : LkCreate(t)
    \/ \E t \in Threads : LkCreated(t)
    \/ \E t \in Threads : LkRelease(t)
    \/ \E t \in Threads, chunk_id \in ChunkIds : DlRunLock(t, chunk_id)
    \/ \E t \in Threads : DlRunUnlock(t)
    \/ \E t \in Threads, id \in 1..MaxLockClasses : DlRecyclerLock(t, id)
    \/ \E t \in Threads : DlRecyclerUnlock(t)
    \/ \E t \in Threads : DlOnFree(t)
    \/ \E t \in Threads : DlOnFreeDone(t)

SpecDeadlock == InitDeadlock /\ [][NextDeadlock]_vars

\* ------------------------------------------------------------------ C40
\* the place of a mutex in the order class bucket, default bucket, run
\* lock or recycler lock
LockRank(b) ==
    CASE b.bucket = "buckets" -> 1
      [] b.bucket = "default_bucket" -> 2
      [] OTHER -> 3

\* C40: the mutexes a thread holds were taken in the order class bucket,
\* default bucket, run lock or recycler lock (held[t] lists them in the
\* order of their acquisition, each rank at most once), every locked mutex
\* is held by its owner, and in every state in which some thread is inside
\* a call, a thread that is inside a call can take a step: no set of
\* threads waits for each other.
C40_no_deadlock ==
    /\ \A t \in Threads :
           \A i, j \in DOMAIN held[t] :
               i < j => LockRank(held[t][i]) < LockRank(held[t][j])
    /\ \A b \in DOMAIN bucket_lock :
           bucket_lock[b] # 0 =>
               \E i \in DOMAIN held[bucket_lock[b]] :
                   held[bucket_lock[b]][i] = b
    /\ (\E t \in Threads : pc[t] # "idle")
           => \E t \in Threads : pc[t] # "idle" /\ ENABLED DlInCall(t)

\* one thread holds a class bucket and waits for the default bucket at
\* line 719, the other holds the default bucket and the run lock of the
\* run it is discarding
C40_witness ==
    \E t, u \in Threads :
        /\ pc[t] = "create" /\ held[t] = <<ClassBucketLock(1)>>
        /\ pc[u] = "discarded_run_lock"
        /\ held[u] = <<DefaultBucketLock, RunLock(1)>>
        /\ ~ENABLED DlInCall(t)

====
